---- MODULE Spec2Model ----
\* streamkinect2: the control channel between Client (client.py) and Server
\* (server.py), with the wire codec of common.py.
\*
\* Time is discrete: one Tick is request_timeout / TicksPerTimeout milliseconds.
\* A timeout created by IOLoop.call_later is due when its remaining time is
\* zero, and time does not advance while a timeout is due.  Every timeout of
\* the client has the same delay, so the IOLoop runs them in the order in
\* which they were created.
EXTENDS Integers, Sequences, FiniteSets, TLC

\* ---------------------------------------------------------------- bounds
\* Control requests issued by the client in one run (every connect, ping and
\* heartbeat issues one).
MaxReqs == 3
\* Timer handles that exist at the same time.
MaxTimers == 4
\* Request sockets that were dropped without being closed and are still alive.
MaxOld == 1
\* Ports the server can bind in one run.
MaxPort == 3
\* Ticks in one request_timeout.
TicksPerTimeout == 2
\* Ticks for which the server is suspended in the stall scenario: 250 ms when
\* request_timeout is 100 ms.
StallTicks == (250 * TicksPerTimeout) \div 100
\* _request_tries_left is not followed below -MaxNegTries.
MaxNegTries == 1
\* Messages the raw peer of SpecServer sends in one run.
MaxPeerMsgs == 3
\* Depth frames the kinect produces in one run.
MaxFrames == 4
MaxQueue == 2
MaxInbox == 1
\* The frames a compressor had dropped before the frames that are followed.
MaxDroppedBefore == 9
\* cpu_count() of the host that runs the compressor.
CpuCount == 1

\* ------------------------------------------------------ program constants
request_max_tries == 3
ProtocolVersion == 1
BadRequestCode == 400
\* _on_depth_frame, line 103: one warning per WarnEvery dropped frames.
WarnEvery == 10

Devices == {"k1", "k2"}
ServerName == "S1"
\* A server on another host of the link.
\* 127.0.0.1, and the bind addresses a server is given in SpecDiscovery.
LocalAddress == <<127, 0, 0, 1>>
BindAddresses == {LocalAddress, <<127, 1>>}
OtherName == "S2"
OtherPort == MaxPort + 1
ServiceNames == {ServerName, OtherName}

\* Python's None, and an optional value as a sequence of length at most one.
None == [none |-> TRUE]
\* The threads of a process: the tornado IOLoop's, the result thread of a
\* multiprocessing Pool (it calls the apply_async callbacks) and the thread
\* of zeroconf.ServiceBrowser (it calls the listener).
LoopThread == "ioloop"
ResultThread == "result"
ObserverThread == "zeroconf"
NoStream == <<>>

\* ------------------------------------------------------------ wire codec
\* MessageType: the enumeration and the byte each member has as its value.
MessageTypes == {"error", "ping", "pong", "who", "me"}
MessageTypeValue(t) ==
    CASE t = "error" -> 0
      [] t = "ping" -> 1
      [] t = "pong" -> 2
      [] t = "who" -> 3
      [] t = "me" -> 4

\* A byte that is the value of no member of MessageType.
UnknownTag == 5
TagBytes == 0..UnknownTag

\* MessageType(b): the member with value b; ValueError when there is none.
IsMessageTypeValue(b) == \E t \in MessageTypes : MessageTypeValue(t) = b
MessageTypeOf(b) == CHOOSE t \in MessageTypes : MessageTypeValue(t) = b

\* Python values a caller can pass as payload: a dict is a record (the empty
\* dict has no field), a tuple and a list are records that hold the items.
EmptyObject == [k \in {} |-> 0]
PyTuple(items) == [py_tuple |-> items]
PyList(items) == [py_list |-> items]

\* json.dumps(payload).encode('utf8'): the text of a JSON document.  JSON has
\* one kind of array: a tuple is written as a list is.
JsonDumps(payload) ==
    IF payload = None
    THEN [enc |-> "utf8", lit |-> "null", val |-> None]
    ELSE IF "py_tuple" \in DOMAIN payload
    THEN [enc |-> "utf8", lit |-> "array", val |-> PyList(payload.py_tuple)]
    ELSE IF "py_list" \in DOMAIN payload
    THEN [enc |-> "utf8", lit |-> "array", val |-> payload]
    ELSE [enc |-> "utf8", lit |-> "object", val |-> payload]

\* Bytes that are not the UTF-8 encoding of a JSON document.
BadBytes == [enc |-> "bad", lit |-> "", val |-> None]

\* json.loads(b.decode('utf8')): ValueError unless b is a JSON document.
JsonLoadable(b) == b.enc = "utf8" /\ b.lit \in {"null", "object", "array"}
JsonLoads(b) == IF b.lit = "null" THEN None ELSE b.val

\* A make_msg that sends no payload part for an empty payload.
make_msg_FalsyIsNone(type, payload) ==
    IF payload = None \/ payload = EmptyObject
    THEN <<MessageTypeValue(type)>>
    ELSE <<MessageTypeValue(type), JsonDumps(payload)>>

make_msg(type, payload) ==
    IF payload = None
    THEN <<MessageTypeValue(type)>>
    ELSE <<MessageTypeValue(type), JsonDumps(payload)>>

\* parse_msg(msg): [ok, type, payload]; ok is FALSE where the code raises
\* ValueError (a wrong number of parts, an unknown tag, an undecodable payload).
ParseFailed == [ok |-> FALSE, type |-> "error", payload |-> None]
parse_msg(msg) ==
    IF Len(msg) = 1
    THEN IF IsMessageTypeValue(msg[1])
         THEN [ok |-> TRUE, type |-> MessageTypeOf(msg[1]), payload |-> None]
         ELSE ParseFailed
    ELSE IF Len(msg) = 2
    THEN IF IsMessageTypeValue(msg[1]) /\ JsonLoadable(msg[2])
         THEN [ok |-> TRUE, type |-> MessageTypeOf(msg[1]),
               payload |-> JsonLoads(msg[2])]
         ELSE ParseFailed
    ELSE ParseFailed

\* ------------------------------------------------------------- variables
\* server: the Server object.  client: the Client object together with what
\* the IOLoop holds for it (the pending timeouts and the request streams that
\* were dropped without being closed).  peer: a raw REQ socket connected to
\* the server's control endpoint.
VARIABLES server, client, peer

\* compressor: one DepthFrameCompressor with its capture thread, its worker
\* pool and the callbacks it has put on the IOLoop.  zc: the Zeroconf object
\* of the bind address.  browser: a ServerBrowser and its listener.  codec:
\* one use of make_msg and parse_msg.
VARIABLES compressor, zc, browser, codec

others == <<compressor, zc, browser, codec>>
vars == <<server, client, peer, compressor, zc, browser, codec>>

EndpointTypes == {"control", "depth"}

\* A REQ socket behind a ZMQStream: the requests queued or on the wire (the
\* socket transmits the next one only after the reply to the previous one
\* was received) and the reply that has arrived and was not yet delivered.
EmptySocket == [outq |-> <<>>, reply |-> <<>>]

Range(f) == {f[x] : x \in DOMAIN f}
Restrict(f, S) == [x \in S |-> f[x]]

\* ------------------------------------------------------------------ Server
\* Server._current_me
current_me(s) ==
    [version |-> ProtocolVersion,
     name |-> s.name,
     endpoints |-> s.endpoints,
     devices |-> {[id |-> d, endpoints |-> s.kinects[d].endpoints] :
                     d \in DOMAIN s.kinects}]

\* A dispatch that answers every tag other than who as it answers ping.
handle_control_PongUnlessWho(s, type, payload) ==
    IF type = "who" THEN [type |-> "me", payload |-> current_me(s)]
    ELSE [type |-> "pong", payload |-> None]

\* Server._handle_control
handle_control(s, type, payload) ==
    IF type = "ping" THEN [type |-> "pong", payload |-> None]
    ELSE IF type = "who" THEN [type |-> "me", payload |-> current_me(s)]
    ELSE [type |-> "error",
          payload |-> [code |-> BadRequestCode, reason |-> "unknown type"]]

\* A receive callback that logs a message it cannot parse and drops it.
Server_control_recv_DropsBadMessage(s, msg) ==
    LET p == parse_msg(msg) IN
    IF ~p.ok THEN <<>>
    ELSE LET r == handle_control(s, p.type, p.payload) IN
         <<make_msg(r.type, r.payload)>>

\* Server._control_recv: the messages it sends on the stream, in order.
Server_control_recv(s, msg) ==
    LET p == parse_msg(msg) IN
    IF ~p.ok
    THEN <<make_msg("error", [code |-> BadRequestCode, reason |-> "bad message"])>>
    ELSE LET r == handle_control(s, p.type, p.payload) IN
         <<make_msg(r.type, r.payload)>>

\* The REP socket takes the request at the head of a connected REQ socket and
\* routes what the handler sends back to that socket.
ServerHandles(sock) == sock.outq # <<>> /\ sock.reply = <<>>
ServerReplies(s, sock) ==
    LET req == Head(sock.outq)
        sent == Server_control_recv(s, req.msg) IN
    [outq |-> Tail(sock.outq),
     reply |-> [i \in 1..Len(sent) |->
                  [msg |-> sent[i], rid |-> req.rid, to |-> req.to]]]

\* What the server did with the last control message it received.
ServerLast(s, sock) ==
    LET req == Head(sock.outq) IN
    [valid |-> TRUE, req |-> req.msg,
     replies |-> Server_control_recv(s, req.msg),
     after_error |-> s.last.valid /\ s.last.replies # <<>>
                       /\ s.last.replies[1][1] = MessageTypeValue("error")]

\* Server._create_and_bind_socket: bind_to_random_port takes a port that no
\* socket of the run has bound.
BoundPort(s) == s.next_port

\* Server.add_kinect: a PUB socket bound to a new port, a
\* DepthFrameCompressor connected to the device's on_depth_frame, the record
\* stored under the device's id, and _on_compressed_frame connected to the
\* compressor's signal.  pubs: the PUB sockets that are open, by port, with
\* the device each was made for.  compressors: the DepthFrameCompressor objects
\* that exist, each known by the port of the record it was made for; wired
\* says that the server's handler is connected to it.
add_kinect(s, d) ==
    [s EXCEPT !.kinects = (d :> [endpoints |-> [depth |-> BoundPort(s)]])
                             @@ s.kinects,
              !.bound = @ \cup {BoundPort(s)},
              !.pubs = (BoundPort(s) :> d) @@ @,
              !.compressors = @ \cup {[kinect |-> d, port |-> BoundPort(s),
                                       wired |-> TRUE]},
              !.next_port = @ + 1]

\* A remove_kinect that also closes the PUB socket of the record and
\* disconnects its compressor from the device.
remove_kinect_Releases(s, d) ==
    LET port == s.kinects[d].endpoints.depth IN
    [s EXCEPT !.kinects = Restrict(s.kinects, DOMAIN s.kinects \ {d}),
              !.bound = @ \ {port},
              !.pubs = Restrict(@, DOMAIN @ \ {port}),
              !.compressors = {c \in @ : c.port # port}]

\* Server.remove_kinect: the record is deleted and the server's handler
\* disconnected from the record's compressor.  Nothing is closed.
remove_kinect(s, d) ==
    LET port == s.kinects[d].endpoints.depth IN
    [s EXCEPT !.kinects = Restrict(s.kinects, DOMAIN s.kinects \ {d}),
              !.compressors =
                  {IF c.port = port THEN [c EXCEPT !.wired = FALSE] ELSE c :
                     c \in @}]

\* A kinects that lists the device of every compressor that exists.
kinects_OfCompressors(s) ==
    LET Walk[S \in SUBSET s.compressors] ==
          IF S = {} THEN <<>>
          ELSE LET c == CHOOSE x \in S : TRUE
               IN <<c.kinect>> \o Walk[S \ {c}]
    IN Walk[s.compressors]

\* Server.kinects: the list of the devices of the records, in the order of
\* the dictionary.
kinects(s) ==
    LET Walk[S \in SUBSET DOMAIN s.kinects] ==
          IF S = {} THEN <<>>
          ELSE LET d == CHOOSE x \in S : TRUE
               IN <<d>> \o Walk[S \ {d}]
    IN Walk[DOMAIN s.kinects]

\* The record of the server holds the compressor: the compressor of a record
\* that was deleted or replaced is referred to by the frames it has in the
\* pool only.
Held(s, c) ==
    /\ c.kinect \in DOMAIN s.kinects
    /\ s.kinects[c.kinect].endpoints.depth = c.port

\* Server._on_compressed_frame, called for a frame of compressor c: the port
\* of the PUB socket the frame is sent on, as a sequence of length one, or
\* nothing when the device has no record (the code then fails on the unbound
\* name record).
publish_port(s, c) ==
    IF c.kinect \in DOMAIN s.kinects
    THEN <<s.kinects[c.kinect].endpoints.depth>>
    ELSE <<>>

\* An IPv4 address in text is the sequence of the numbers between its dots:
\* 127.0.0.1 is <<127, 0, 0, 1>> and 127.1, which names the same host, is
\* <<127, 1>>.  Packed it is a sequence of four bytes.
\* socket.inet_aton: the last number fills the bytes that are left.
inet_aton(text) ==
    [i \in 1..4 |->
        IF i < Len(text) THEN text[i]
        ELSE IF i = 4 THEN text[Len(text)]
        ELSE 0]

\* An inet_ntoa that writes the bytes in host order on a little-endian host.
inet_ntoa_Reversed(packed) == [i \in 1..4 |-> packed[5 - i]]

\* socket.inet_ntoa: the four bytes in decimal, with dots.
inet_ntoa(packed) == [i \in 1..4 |-> packed[i]]

\* 'tcp://{0}:{1}'.format(address, port)
Uri(address, port) == [address |-> address, port |-> port]

\* The URI of the server's control endpoint, as _create_and_bind_socket
\* formats it from Server.address.
control_endpoint(s) == Uri(s.address, s.endpoints.control)

\* Server.start and Server.stop work on the server and on the Zeroconf object
\* of its bind address: w is the pair of them.
\* Zeroconf.registerService / Zeroconf.unregisterService
registerService(z, info) ==
    [z EXCEPT !.registered = (info.name :> info.port) @@ @,
              !.addresses = (info.name :> info.address) @@ @]
unregisterService(z, info) ==
    [z EXCEPT !.registered = Restrict(@, DOMAIN @ \ {info.name}),
              !.addresses = Restrict(@, DOMAIN @ \ {info.name})]

\* Ports bind_to_random_port can return: one that no open socket has bound.
\* A port below next_port was released by stop; next_port was never bound.
FreePorts(s) == {port \in 1..MaxPort : port \notin s.bound /\ port <= s.next_port}

\* A start that binds and registers again on a running server.
start_Unguarded(w, port) ==
    LET info == [name |-> w.server.name, port |-> port,
                 address |-> inet_aton(w.server.address)]
        s1 == [w.server EXCEPT
                 !.streams = [control |-> port],
                 !.endpoints = [control |-> port],
                 !.bound = @ \cup {port},
                 !.next_port = IF port = @ THEN @ + 1 ELSE @,
                 !.zc_info = <<info>>,
                 !.is_running = TRUE]
    IN [server |-> s1,
        zc |-> IF w.server.announce THEN registerService(w.zc, info) ELSE w.zc]

\* Server.start, the control socket being bound to port
start(w, port) ==
    IF w.server.is_running THEN w
    ELSE LET info == [name |-> w.server.name, port |-> port,
                      address |-> inet_aton(w.server.address)]
             s1 == [w.server EXCEPT
                      !.streams = [control |-> port],
                      !.endpoints = [control |-> port],
                      !.bound = @ \cup {port},
                      !.next_port = IF port = @ THEN @ + 1 ELSE @,
                      !.zc_info = <<info>>,
                      !.is_running = TRUE]
         IN [server |-> s1,
             zc |-> IF w.server.announce THEN registerService(w.zc, info)
                    ELSE w.zc]

\* A stop that leaves the Zeroconf registration in place.
stop_StaysRegistered(w) ==
    IF ~w.server.is_running THEN w
    ELSE [server |-> [w.server EXCEPT
                        !.bound = @ \ Range(w.server.streams),
                        !.streams = <<>>,
                        !.is_running = FALSE],
          zc |-> w.zc]

\* Server.stop
stop(w) ==
    IF ~w.server.is_running THEN w
    ELSE [server |-> [w.server EXCEPT
                        !.bound = @ \ Range(w.server.streams),
                        !.streams = <<>>,
                        !.is_running = FALSE],
          zc |-> IF w.server.announce
                 THEN unregisterService(w.zc, w.server.zc_info[1])
                 ELSE w.zc]

\* ----------------------------------------------------------- ServerBrowser
\* Zeroconf.getServiceInfo: the ServerInfo of a registered service, as a
\* sequence of length one, or nothing (the code then fails on None).
getServiceInfo(z, name) ==
    IF name \in DOMAIN z.registered
    THEN <<[name |-> name, address |-> z.addresses[name],
            port |-> z.registered[name]]>>
    ELSE <<>>

\* ServerBrowser._Listener.addService
addService(b, z, name) ==
    IF ~b.alive THEN b
    ELSE LET zc_info == getServiceInfo(z, name) IN
         IF zc_info = <<>> THEN [b EXCEPT !.raised = "AttributeError"]
         ELSE LET address == inet_ntoa(zc_info[1].address)
                  port == zc_info[1].port
                  info == [name |-> name, endpoint |-> Uri(address, port)]
              IN
              [b EXCEPT !.servers = (name :> info) @@ @,
                        !.callbacks = Append(@, [sig |-> "on_add_server",
                                                 server_info |-> info])]

\* A removeService that signals names the listener never stored.
removeService_UnknownToo(b, name) ==
    IF ~b.alive THEN b
    ELSE [b EXCEPT !.servers = Restrict(@, DOMAIN @ \ {name}),
                   !.callbacks = Append(@, [sig |-> "on_remove_server",
                                            server_info |->
                                              IF name \in DOMAIN b.servers
                                              THEN b.servers[name]
                                              ELSE [name |-> name,
                                                    endpoint |-> Uri(<<>>, 0)]])]

\* ServerBrowser._Listener.removeService
removeService(b, name) ==
    IF ~b.alive THEN b
    ELSE IF name \notin DOMAIN b.servers THEN b
    ELSE [b EXCEPT !.servers = Restrict(@, DOMAIN @ \ {name}),
                   !.callbacks = Append(@, [sig |-> "on_remove_server",
                                            server_info |-> b.servers[name]])]

\* The IOLoop runs the oldest callback of the browser: Signal.send.  balance
\* counts, per name, the on_add_server signals sent minus the
\* on_remove_server signals sent; last_add is the ServerInfo of the last
\* on_add_server of the name.
\* ran_on: the threads that have run the handlers of the browser's signals.
browser_signal_send(b, cb, thread) ==
    LET name == cb.server_info.name
    IN [b EXCEPT !.emitted = <<cb>>,
                 !.ran_on = @ \cup {thread},
                 !.balance[name] = IF cb.sig = "on_add_server" THEN @ + 1 ELSE @ - 1,
                 !.last_add[name] = IF cb.sig = "on_add_server"
                                    THEN <<cb.server_info>> ELSE @]

browser_send(b) ==
    browser_signal_send([b EXCEPT !.callbacks = Tail(@)], Head(b.callbacks),
                        LoopThread)

\* ------------------------------------------------------------------ Client
\* What the last step did, for the properties: the operation and its
\* argument, the exception that left it, the signals it sent, the response
\* handler it invoked and the timeout that fired.
Begin(c, op) ==
    [c EXCEPT !.op = op, !.arg = <<>>, !.raised = "none", !.emitted = <<>>,
              !.invoked = <<>>, !.fired = <<>>]

Raise(c, exc) == [c EXCEPT !.raised = exc]
\* Signal.send.  balance counts, per device, the on_add_kinect signals sent
\* minus the on_remove_kinect signals sent.
Emit(c, sig, arg) ==
    [c EXCEPT !.emitted = Append(@, [sig |-> sig, arg |-> arg]),
              !.balance = IF sig = "on_add_kinect" THEN [@ EXCEPT ![arg] = @ + 1]
                          ELSE IF sig = "on_remove_kinect" THEN [@ EXCEPT ![arg] = @ - 1]
                          ELSE @]

\* Client.kinect_ids
kinect_ids(c) == DOMAIN c.kinect_records

\* IOLoop.call_later: a handle that no pending timeout and no entry of
\* _request_timeout_handles uses.
UsedTimers(c) ==
    {c.timers[i].id : i \in 1..Len(c.timers)} \cup Range(c.request_timeout_handles)
HasFreshTimer(c) == \E t \in 1..MaxTimers : t \notin UsedTimers(c)
FreshTimer(c) ==
    CHOOSE t \in 1..MaxTimers :
        t \notin UsedTimers(c) /\ \A u \in 1..(t - 1) : u \in UsedTimers(c)

call_later(c) ==
    [c EXCEPT !.timers =
        Append(@, [id |-> FreshTimer(c), left |-> TicksPerTimeout,
                   sess |-> IF c.is_connected THEN c.session ELSE 0])]

\* IOLoop.remove_timeout
CancelAll(timers, handles) ==
    LET Pending(x) == x.id \notin handles IN SelectSeq(timers, Pending)
remove_timeout(c, t) == [c EXCEPT !.timers = CancelAll(@, {t})]

\* A stream the client no longer refers to was not closed: it lives on
\* (keep) or is collected.  A stream with nothing queued and no reply due
\* can do nothing more.
DropStream(c, keep) ==
    IF c.control_stream = NoStream THEN c
    ELSE LET sock == c.control_stream[1] IN
         IF keep /\ (sock.outq # <<>> \/ sock.reply # <<>>)
                 /\ Len(c.old_streams) < MaxOld
         THEN [c EXCEPT !.control_stream = NoStream,
                        !.old_streams = Append(@, sock)]
         ELSE [c EXCEPT !.control_stream = NoStream]

\* Client._connect_control_endpoint
connect_control_endpoint(c, keep) ==
    [DropStream(c, keep) EXCEPT !.control_stream = <<EmptySocket>>]

\* ZMQStream.send_multipart on the control stream
StreamSend(c, type, payload, rid) ==
    [c EXCEPT !.control_stream[1].outq =
        Append(@, [msg |-> make_msg(type, payload), rid |-> rid, to |-> type])]

\* Client._control_send
control_send(c, type, payload, recv_cb) ==
    LET rid == c.next_rid
        t == FreshTimer(c)
        c1 == [call_later(c) EXCEPT
                 !.request_message_queue =
                     Append(@, [type |-> type, payload |-> payload, rid |-> rid]),
                 !.request_timeout_handles = Append(@, t),
                 !.response_handlers =
                     Append(@, [cb |-> recv_cb, rid |-> rid, sess |-> c.session]),
                 !.next_rid = rid + 1,
                 !.wait_ticks = IF c.request_message_queue = <<>> THEN 0 ELSE @]
    IN StreamSend(c1, type, payload, rid)

\* A disconnect that does not test is_connected.
disconnect_Unguarded(c, keep) ==
    LET c1 == [c EXCEPT
                 !.timers = CancelAll(@, Range(c.request_timeout_handles)),
                 !.request_timeout_handles = <<>>,
                 !.request_message_queue = <<>>,
                 !.heartbeat_callback = FALSE]
        c2 == [DropStream(c1, keep) EXCEPT !.is_connected = FALSE]
    IN Emit(c2, "on_disconnect", "")

\* A disconnect that forgets the devices of the server.
disconnect_ForgetsDevices(c, keep) ==
    IF ~c.is_connected THEN c
    ELSE LET c1 == [c EXCEPT
                      !.timers = CancelAll(@, Range(c.request_timeout_handles)),
                      !.request_timeout_handles = <<>>,
                      !.request_message_queue = <<>>,
                      !.heartbeat_callback = FALSE,
                      !.kinect_records = <<>>]
             c2 == [DropStream(c1, keep) EXCEPT !.is_connected = FALSE]
         IN Emit(c2, "on_disconnect", "")

\* Client.disconnect
disconnect(c, keep) ==
    IF ~c.is_connected THEN c
    ELSE LET c1 == [c EXCEPT
                      !.timers = CancelAll(@, Range(c.request_timeout_handles)),
                      !.request_timeout_handles = <<>>,
                      !.request_message_queue = <<>>,
                      !.heartbeat_callback = FALSE]
             c2 == [DropStream(c1, keep) EXCEPT !.is_connected = FALSE]
         IN Emit(c2, "on_disconnect", "")

\* Client._who_me
who_me(c) == control_send(c, "who", None, "got_me")

\* Client.connect
connect(c, keep) ==
    IF c.is_connected THEN c
    ELSE LET c1 == [connect_control_endpoint(c, keep) EXCEPT
                      !.request_timeout_handles = <<>>,
                      !.request_message_queue = <<>>,
                      !.request_tries_left = request_max_tries,
                      !.is_connected = TRUE,
                      !.session = @ + 1,
                      !.wait_ticks = 0]
             c2 == [who_me(c1) EXCEPT !.heartbeat_callback = TRUE]
         IN Emit(c2, "on_connect", "")

\* Client.ping
ping(c) ==
    IF ~c.is_connected THEN Raise(c, "RuntimeError")
    ELSE control_send(c, "ping", None, "pong")

\* An enable_depth_frames that makes a record for an id it does not know.
enable_depth_frames_AnyId(c, kinect_id) ==
    IF kinect_id \notin DOMAIN c.kinect_records
    THEN [c EXCEPT !.kinect_records =
            (kinect_id :> [endpoints |-> <<>>, streams |-> <<>>]) @@ @]
    ELSE LET record == c.kinect_records[kinect_id] IN
         IF "depth" \notin DOMAIN record.endpoints THEN Raise(c, "KeyError")
         ELSE [c EXCEPT !.kinect_records[kinect_id].streams =
                   ("depth" :> <<[endpoint |-> record.endpoints["depth"]]>>) @@ @]

RECURSIVE SetToSeq(_)
SetToSeq(S) ==
    IF S = {} THEN <<>>
    ELSE LET x == CHOOSE y \in S : TRUE IN <<x>> \o SetToSeq(S \ {x})

\* The SUB streams of the records: each was connected to an endpoint and
\* delivers what it receives as on_depth_frame of the device it was made for.
HasStream(record) ==
    "depth" \in DOMAIN record.streams /\ record.streams["depth"] # NoStream
Subscriptions(records) ==
    {[kinect_id |-> d, endpoint |-> records[d].streams["depth"][1].endpoint] :
        d \in {x \in DOMAIN records : HasStream(records[x])}}

\* The streams of old that new no longer holds.  Nothing closes them: they
\* stay registered with the IOLoop, connected and subscribed.
DroppedStreams(old, new, by) ==
    {[kinect_id |-> sub.kinect_id, endpoint |-> sub.endpoint, by |-> by] :
        sub \in Subscriptions(old) \ Subscriptions(new)}

\* Client.enable_depth_frames
enable_depth_frames(c, kinect_id) ==
    IF kinect_id \notin DOMAIN c.kinect_records THEN Raise(c, "ValueError")
    ELSE LET record == c.kinect_records[kinect_id] IN
         IF "depth" \notin DOMAIN record.endpoints THEN Raise(c, "KeyError")
         ELSE LET c1 == [c EXCEPT !.kinect_records[kinect_id].streams =
                           ("depth" :> <<[endpoint |-> record.endpoints["depth"]]>>)
                               @@ @]
              IN [c1 EXCEPT !.old_subs = @ \cup
                     DroppedStreams(c.kinect_records, c1.kinect_records, "enable")]

\* The stream on_recv callback of enable_depth_frames, lines 183-185: the
\* message is not decoded and the signal carries no frame.
on_recv(c, kinect_id, msg) ==
    Emit(c, "on_depth_frame", [kinect_id |-> kinect_id, depth_frame |-> None])

\* A message sent on the PUB socket of port reaches every stream that is
\* connected to the port.  after_drop: the stream had been dropped by got_me
\* when the message was published.
LiveStreams(c) ==
    {[kinect_id |-> sub.kinect_id, endpoint |-> sub.endpoint, by |-> "none"] :
        sub \in Subscriptions(c.kinect_records)} \cup c.old_subs
Receivers(c, port) == {sub \in LiveStreams(c) : sub.endpoint = port}
deliver(c, port, frame) ==
    LET subs == SetToSeq(Receivers(c, port)) IN
    [c EXCEPT !.inbox = @ \o
        [i \in 1..Len(subs) |->
            [kinect_id |-> subs[i].kinect_id, endpoint |-> port, frame |-> frame,
             after_drop |-> subs[i].by = "got_me"]]]

RECURSIVE EmitAll(_, _, _)
EmitAll(c, sig, ids) ==
    IF ids = <<>> THEN c
    ELSE EmitAll(Emit(c, sig, Head(ids)), sig, Tail(ids))

\* got_me, lines 271-300: the record of one device of the payload.  An
\* endpoint the payload does not list is deleted with its stream; a new or
\* changed one is recorded and its stream reset to None.
device_record(c, device) ==
    LET known == device.id \in DOMAIN c.kinect_records
        record == IF known THEN c.kinect_records[device.id]
                  ELSE [endpoints |-> <<>>, streams |-> <<>>]
        listed == {t \in EndpointTypes : t \in DOMAIN device.endpoints}
        same(t) == t \in DOMAIN record.endpoints
                     /\ record.endpoints[t] = device.endpoints[t]
    IN [endpoints |-> [t \in listed |-> device.endpoints[t]],
        streams |-> [t \in listed |->
                        IF same(t) THEN record.streams[t] ELSE NoStream]]

\* got_me, lines 316-325: the add and remove signals.
kinect_signals(c, old_kinect_ids) ==
    LET new_kinect_ids == kinect_ids(c)
        c1 == EmitAll(c, "on_add_kinect", SetToSeq(new_kinect_ids \ old_kinect_ids))
    IN EmitAll(c1, "on_remove_kinect", SetToSeq(old_kinect_ids \ new_kinect_ids))

\* Client._who_me.got_me
got_me(c, type, payload) ==
    IF type # "me" THEN Raise(c, "ProtocolError")
    ELSE IF payload = None \/ "version" \notin DOMAIN payload
            \/ payload.version # ProtocolVersion
    THEN Raise(c, "ProtocolError")
    ELSE IF "name" \notin DOMAIN payload THEN Raise(c, "KeyError")
    ELSE LET c1 == [c EXCEPT !.server_name = <<payload.name>>]
             old_kinect_ids == kinect_ids(c1)
         IN IF "devices" \notin DOMAIN payload THEN Raise(c1, "KeyError")
            ELSE LET ids == {device.id : device \in payload.devices}
                     new_records ==
                         [d \in ids |-> device_record(c1,
                             CHOOSE device \in payload.devices : device.id = d)]
                     c2 == [c1 EXCEPT !.kinect_records = new_records,
                                      !.old_subs = @ \cup DroppedStreams(
                                          c1.kinect_records, new_records, "got_me"),
                                      !.seen = @ \cup ids]
                 IN IF "endpoints" \notin DOMAIN payload THEN Raise(c2, "KeyError")
                    ELSE LET listed == EndpointTypes \cap DOMAIN payload.endpoints
                             c3 == [c2 EXCEPT !.endpoints =
                                      [t \in DOMAIN c2.endpoints \cup listed |->
                                          IF t \in listed THEN payload.endpoints[t]
                                          ELSE c2.endpoints[t]]]
                         IN kinect_signals(c3, old_kinect_ids)

Max(a, b) == IF a >= b THEN a ELSE b

\* Client._control_recv, msg being the reply to the request rid
control_recv(c, msg, rid, to) ==
    IF ~c.is_connected THEN c
    ELSE LET c0 == [c EXCEPT !.answered_who = IF to = "who" THEN Max(@, rid) ELSE @]
             c1 == IF c0.request_timeout_handles = <<>> THEN c0
                   ELSE [remove_timeout(c0, Head(c0.request_timeout_handles))
                           EXCEPT !.request_timeout_handles = Tail(@)]
         IN IF c1.request_message_queue = <<>> THEN Raise(c1, "IndexError")
            ELSE LET head == Head(c1.request_message_queue)
                     c2 == [c1 EXCEPT !.request_message_queue = Tail(@),
                                      !.request_tries_left = request_max_tries,
                                      !.wait_ticks = 0]
                     p == parse_msg(msg)
                 IN IF ~p.ok THEN Raise(c2, "ValueError")
                    ELSE IF c2.response_handlers = <<>> THEN Raise(c2, "IndexError")
                    ELSE LET handler == Head(c2.response_handlers)
                             c3 == [c2 EXCEPT
                                      !.response_handlers = Tail(@),
                                      !.invoked = <<[cb |-> handler.cb,
                                                     rid |-> handler.rid,
                                                     sess |-> handler.sess,
                                                     head_rid |-> head.rid,
                                                     reply_rid |-> rid,
                                                     reply_type |-> p.type,
                                                     payload |-> p.payload]>>]
                         IN IF handler.cb = "got_me"
                            THEN got_me(c3, p.type, p.payload)
                            ELSE c3

\* A resend that sends again the request at the head of the queue only.
resend_HeadOnly(c, keep) ==
    LET c1 == connect_control_endpoint(c, keep)
        c2 == [c1 EXCEPT !.request_timeout_handles =
                 IF @ = <<>> THEN @ ELSE Tail(@)]
        t == FreshTimer(c2)
        c3 == [call_later(c2) EXCEPT !.request_timeout_handles = <<t>> \o @]
        q == c3.request_message_queue
    IN [c3 EXCEPT !.control_stream[1].outq =
          [i \in 1..(IF q = <<>> THEN 0 ELSE 1) |->
             [msg |-> make_msg(q[i].type, q[i].payload),
              rid |-> q[i].rid, to |-> q[i].type]]]

\* Client._request_timedout, lines 407-422: the socket is recreated, the head
\* handle popped (not cancelled), a new timeout put at the head and every
\* queued message sent again.
resend(c, keep) ==
    LET c1 == connect_control_endpoint(c, keep)
        c2 == [c1 EXCEPT !.request_timeout_handles =
                 IF @ = <<>> THEN @ ELSE Tail(@)]
        t == FreshTimer(c2)
        c3 == [call_later(c2) EXCEPT !.request_timeout_handles = <<t>> \o @]
        q == c3.request_message_queue
    IN [c3 EXCEPT !.control_stream[1].outq =
          [i \in 1..Len(q) |->
             [msg |-> make_msg(q[i].type, q[i].payload),
              rid |-> q[i].rid, to |-> q[i].type]]]

\* A _request_timedout that gives up at the first timeout.
request_timedout_GivesUp(c, keep) ==
    disconnect([c EXCEPT !.request_tries_left = @ - 1], keep)

\* Client._request_timedout
request_timedout(c, keep) ==
    LET c1 == [c EXCEPT !.request_tries_left = @ - 1] IN
    IF c1.request_tries_left = 0 THEN disconnect(c1, keep)
    ELSE resend(c1, keep)

\* ---------------------------------------------------- DepthFrameCompressor
\* Three threads touch the compressor.  The capture thread of the kinect
\* sends on_depth_frame and so runs _on_depth_frame.  The result thread of
\* the multiprocessing Pool runs the apply_async callback
\* _on_compressed_frame.  The IOLoop thread runs the callbacks that
\* add_callback queued.  A thread can be preempted between the bytecodes of
\* an augmented assignment: "self._n_in_flight += 1" is a load followed by a
\* store.

\* cpu_count() of the host, and DepthFrameCompressor._MAX_IN_FLIGHT.
MAX_IN_FLIGHT == CpuCount + 1

Frames == 1..MaxFrames

\* The stages of a frame: not yet captured ("new"), refused by
\* _on_depth_frame ("dropped"), handed to apply_async ("pooled"), raised in
\* the worker ("failed"), compressed and waiting for the result thread
\* ("result"), inside _on_compressed_frame ("callback"), queued on the IOLoop
\* ("scheduled"), thrown away because the IOLoop was closed ("discarded"),
\* sent on on_compressed_frame ("emitted").
StageOf(p, stages) == {f \in Frames : p.stage[f] \in stages}

\* An admission test that lets the counter reach the limit and pass it.
under_limit_Inclusive(p) == p.n_in_flight <= MAX_IN_FLIGHT

\* _on_depth_frame, line 96: the admission test.
under_limit(p) == p.n_in_flight < MAX_IN_FLIGHT

\* A test of the dropped count that lets every drop log a warning.
warn_due_EveryDrop(n_dropped) == n_dropped % 1 = 0

\* _on_depth_frame, line 103: is a warning due at this dropped count?
warn_due(n_dropped) == n_dropped % WarnEvery = 0

\* _on_depth_frame up to the call of apply_async (lines 96-98), or the whole
\* else branch (lines 100-104).  warnings: the dropped counts that log.warn
\* of line 104 has reported.
on_depth_frame(p, f) ==
    IF under_limit(p)
    THEN [p EXCEPT !.pool = @ \cup {f},
                   !.stage[f] = "pooled",
                   !.capture_pc = "load"]
    ELSE [p EXCEPT !.n_dropped = @ + 1,
                   !.warnings = IF warn_due(p.n_dropped + 1)
                                THEN Append(@, p.n_dropped + 1) ELSE @,
                   !.stage[f] = "dropped",
                   !.next_frame = @ + 1]

\* _on_depth_frame, line 99: the load of self._n_in_flight.
increment_load(p) ==
    [p EXCEPT !.capture_reg = p.n_in_flight, !.capture_pc = "store"]

\* _on_depth_frame, line 99: the store of the incremented value.  An update
\* is lost when the counter changed since the load.
increment_store(p) ==
    [p EXCEPT !.n_in_flight = p.capture_reg + 1,
              !.lost = @ \/ p.n_in_flight # p.capture_reg,
              !.capture_pc = "idle",
              !.next_frame = @ + 1]

\* A worker finishes _compress_depth_frame.  The Pool hands a return value
\* to its result thread, which will call the callback; apply_async was given
\* no error_callback, so an exception of the worker reaches nobody.
worker_done(p, f, ok) ==
    IF ok
    THEN [p EXCEPT !.pool = @ \ {f}, !.stage[f] = "result",
                   !.results = Append(@, f)]
    ELSE [p EXCEPT !.pool = @ \ {f}, !.stage[f] = "failed"]

\* _on_compressed_frame, line 77: the load of self._n_in_flight.
decrement_load(p) ==
    LET f == Head(p.results) IN
    [p EXCEPT !.results = Tail(@),
              !.stage[f] = "callback",
              !.handler_frame = f,
              !.handler_reg = p.n_in_flight,
              !.handler_pc = "store"]

\* A callback that is put on the IOLoop a second time.
add_callback_Twice(p, f) ==
    IF p.loop_closed
    THEN [p EXCEPT !.stage[f] = "discarded"]
    ELSE [p EXCEPT !.stage[f] = "scheduled", !.callbacks = Append(Append(@, f), f)]

\* IOLoop.add_callback(self.on_compressed_frame.send, ...), lines 80-92: a
\* closed IOLoop takes no callback and the exception is swallowed.
add_callback(p, f) ==
    IF p.loop_closed
    THEN [p EXCEPT !.stage[f] = "discarded"]
    ELSE [p EXCEPT !.stage[f] = "scheduled", !.callbacks = Append(@, f)]

\* on_compressed_frame.send for frame f, called by thread.  ran_on: the
\* threads that have run the handlers of the signal.
compressed_frame_send(p, f, thread) ==
    [p EXCEPT !.stage[f] = "emitted",
              !.emitted[f] = @ + 1,
              !.ran_on = @ \cup {thread}]

\* An _on_compressed_frame that sends the signal itself, on the thread of
\* the Pool that called it.
on_compressed_frame_SendsNow(p) ==
    LET p1 == [p EXCEPT !.n_in_flight = p.handler_reg - 1,
                        !.lost = @ \/ p.n_in_flight # p.handler_reg,
                        !.handler_pc = "idle"]
    IN compressed_frame_send(p1, p.handler_frame, ResultThread)

\* _on_compressed_frame, line 77 (the store) to line 92.
on_compressed_frame(p) ==
    LET p1 == [p EXCEPT !.n_in_flight = p.handler_reg - 1,
                        !.lost = @ \/ p.n_in_flight # p.handler_reg,
                        !.handler_pc = "idle"]
    IN add_callback(p1, p.handler_frame)

\* The IOLoop runs the oldest callback: on_compressed_frame.send.
run_callback(p) ==
    compressed_frame_send([p EXCEPT !.callbacks = Tail(@)], Head(p.callbacks),
                          LoopThread)

\* IOLoop.close: the callbacks still queued are never run.
close_loop(p) ==
    [p EXCEPT !.loop_closed = TRUE,
              !.callbacks = <<>>,
              !.stage = [f \in Frames |->
                           IF p.stage[f] = "scheduled" THEN "discarded"
                           ELSE p.stage[f]]]

\* DepthFrameCompressor.__init__
CompressorInit ==
    [n_in_flight |-> 0,
     n_dropped |-> 0,
     pool |-> {},
     results |-> <<>>,
     callbacks |-> <<>>,
     loop_closed |-> FALSE,
     next_frame |-> 1,
     capture_pc |-> "idle", capture_reg |-> 0,
     handler_pc |-> "idle", handler_reg |-> 0, handler_frame |-> 0,
     stage |-> [f \in Frames |-> "new"],
     emitted |-> [f \in Frames |-> 0],
     warnings |-> <<>>,
     ran_on |-> {},
     lost |-> FALSE]

\* -------------------------------------------------------------- initially
\* Server(address, start_immediately=True): running, the control socket bound.
ServerInit ==
    [is_running |-> TRUE,
     name |-> ServerName,
     address |-> LocalAddress,
     endpoints |-> [control |-> 1],
     kinects |-> <<>>,
     next_port |-> 2,
     announce |-> TRUE,
     streams |-> [control |-> 1],
     bound |-> {1},
     zc_info |-> <<[name |-> ServerName, port |-> 1,
                    address |-> inet_aton(LocalAddress)]>>,
     pubs |-> <<>>,
     compressors |-> {},
     attached |-> {},
     suspended |-> 0,
     frame |-> [event |-> "none", kinect |-> "", port |-> 0, held |-> FALSE],
     op |-> [name |-> "init", was_running |-> FALSE],
     last |-> [valid |-> FALSE, req |-> <<>>, replies |-> <<>>,
               after_error |-> FALSE],
     change_rid |-> 1]

\* Client(control_endpoint): Client.__init__
ClientInit ==
    [is_connected |-> FALSE,
     server_name |-> <<>>,
     endpoints |-> [control |-> 1],
     response_handlers |-> <<>>,
     heartbeat_callback |-> FALSE,
     kinect_records |-> <<>>,
     control_stream |-> NoStream,
     request_timeout_handles |-> <<>>,
     request_message_queue |-> <<>>,
     request_tries_left |-> request_max_tries,
     timers |-> <<>>,
     old_streams |-> <<>>,
     session |-> 0,
     next_rid |-> 1,
     wait_ticks |-> 0,
     answered_who |-> 0,
     balance |-> [d \in Devices |-> 0],
     old_subs |-> {},
     inbox |-> <<>>,
     seen |-> {},
     stall |-> [pinged |-> FALSE, left |-> 0, recreations |-> 0, pongs |-> 0],
     op |-> "init", arg |-> <<>>, raised |-> "none", emitted |-> <<>>,
     invoked |-> <<>>, fired |-> <<>>]

PeerInit == [outq |-> <<>>, reply |-> <<>>, sent |-> 0]

\* The Zeroconf object after Server.start registered the server.
ZcInit ==
    [registered |-> (ServerName :> 1),
     addresses |-> (ServerName :> inet_aton(LocalAddress))]

\* ServerBrowser.__init__: the listener knows no server.  known and events
\* belong to zeroconf.ServiceBrowser: the names it has seen announced and the
\* listener calls it has not made yet.
BrowserInit ==
    [alive |-> TRUE,
     running |-> TRUE,
     known |-> {},
     events |-> <<>>,
     servers |-> <<>>,
     callbacks |-> <<>>,
     emitted |-> <<>>,
     raised |-> "none",
     ran_on |-> {},
     resolved |-> <<>>,
     sent_resolved |-> <<>>,
     balance |-> [n \in ServiceNames |-> 0],
     last_add |-> [n \in ServiceNames |-> <<>>]]

\* No message is being encoded or decoded.
CodecInit == [pc |-> "idle"]

Init ==
    /\ server = ServerInit
    /\ client = ClientInit
    /\ peer = PeerInit
    /\ compressor = CompressorInit
    /\ zc = ZcInit
    /\ browser = BrowserInit
    /\ codec = CodecInit

\* ------------------------------------------------------------- client API
\* After the ping of the stall scenario: c1 is what a callback made of the
\* client; the recreations of the request socket (_request_timedout with
\* tries left) and the calls of the pong handler are counted.
Stalled(c, c1) ==
    IF ~c.stall.pinged THEN c1
    ELSE [c1 EXCEPT
            !.stall.recreations =
                IF c1.op = "request_timedout" /\ c1.request_tries_left # 0
                THEN @ + 1 ELSE @,
            !.stall.pongs =
                IF c1.invoked # <<>> /\ c1.invoked[1].cb = "pong"
                THEN @ + 1 ELSE @]

CanSend(c) == c.next_rid <= MaxReqs /\ HasFreshTimer(c)

Connect ==
    /\ client.is_connected \/ CanSend(client)
    /\ \E keep \in BOOLEAN : client' = connect(Begin(client, "connect"), keep)
    /\ UNCHANGED <<server, peer, others>>

Disconnect ==
    /\ \E keep \in BOOLEAN : client' = disconnect(Begin(client, "disconnect"), keep)
    /\ UNCHANGED <<server, peer, others>>

Ping ==
    /\ client.is_connected => CanSend(client)
    /\ client' = ping(Begin(client, "ping"))
    /\ UNCHANGED <<server, peer, others>>

EnableDepthFrames ==
    /\ \E kinect_id \in Devices :
          client' = enable_depth_frames(
                        [Begin(client, "enable_depth_frames") EXCEPT
                           !.arg = <<kinect_id>>], kinect_id)
    /\ UNCHANGED <<server, peer, others>>

\* ------------------------------------------------------ event-loop callbacks
\* The PeriodicCallback created by connect calls _who_me.
Heartbeat ==
    /\ client.heartbeat_callback
    /\ CanSend(client)
    /\ client' = who_me(Begin(client, "heartbeat"))
    /\ UNCHANGED <<server, peer, others>>

\* The control stream delivers a reply to _control_recv.
ControlRecv ==
    /\ client.control_stream # NoStream
    /\ client.control_stream[1].reply # <<>>
    /\ LET env == client.control_stream[1].reply[1]
           c0 == [Begin(client, "control_recv") EXCEPT
                    !.control_stream[1].reply = <<>>]
       IN client' = Stalled(client, control_recv(c0, env.msg, env.rid, env.to))
    /\ UNCHANGED <<server, peer, others>>

RemoveAt(q, i) == [j \in 1..(Len(q) - 1) |-> IF j < i THEN q[j] ELSE q[j + 1]]

\* A stream that was dropped alive delivers a reply: its on_recv callback is
\* the same _control_recv.
OldRecv ==
    /\ \E i \in 1..Len(client.old_streams) :
          /\ client.old_streams[i].reply # <<>>
          /\ LET sock == client.old_streams[i]
                 env == sock.reply[1]
                 c0 == [Begin(client, "control_recv") EXCEPT
                          !.old_streams =
                              IF sock.outq = <<>> THEN RemoveAt(@, i)
                              ELSE [@ EXCEPT ![i].reply = <<>>]]
             IN client' = Stalled(client,
                                  control_recv(c0, env.msg, env.rid, env.to))
    /\ UNCHANGED <<server, peer, others>>

\* The oldest pending timeout is due: the IOLoop runs _request_timedout.
TimerFire ==
    /\ client.request_tries_left > -MaxNegTries
    /\ client.timers # <<>>
    /\ Head(client.timers).left = 0
    /\ LET t == Head(client.timers)
           c0 == [Begin(client, "request_timedout") EXCEPT
                    !.timers = Tail(@),
                    !.fired = <<[sess |-> t.sess,
                                 connected |-> client.is_connected,
                                 session |-> client.session]>>]
       IN /\ HasFreshTimer(c0)
          /\ \E keep \in BOOLEAN :
                client' = Stalled(client, request_timedout(c0, keep))
    /\ UNCHANGED <<server, peer, others>>

\* Time passes unless a timeout is due.
MaxWait == request_max_tries * TicksPerTimeout
Tick ==
    /\ \A i \in 1..Len(client.timers) : client.timers[i].left > 0
    /\ client' = [Begin(client, "idle") EXCEPT
                    !.timers = [i \in 1..Len(@) |-> [@[i] EXCEPT !.left = @ - 1]],
                    !.wait_ticks =
                        IF client.is_connected /\ client.request_message_queue # <<>>
                             /\ @ < MaxWait
                        THEN @ + 1 ELSE @]
    /\ UNCHANGED <<server, peer, others>>

\* ------------------------------------------------------------------ server
\* The server's control stream receives the next request of the client's
\* current socket: Server._control_recv.
ServerRecv ==
    /\ server.suspended = 0
    /\ client.control_stream # NoStream
    /\ ServerHandles(client.control_stream[1])
    /\ client' = [Begin(client, "idle") EXCEPT
                    !.control_stream[1] = ServerReplies(server, @)]
    /\ UNCHANGED <<server, peer, others>>

\* The same for a socket that was dropped alive.
ServerRecvOld ==
    /\ server.suspended = 0
    /\ \E i \in 1..Len(client.old_streams) :
          /\ ServerHandles(client.old_streams[i])
          /\ client' = [Begin(client, "idle") EXCEPT
                          !.old_streams[i] = ServerReplies(server, @)]
    /\ UNCHANGED <<server, peer, others>>

AddKinect ==
    /\ server.next_port <= MaxPort
    /\ \E d \in Devices :
          server' = [add_kinect(server, d) EXCEPT !.change_rid = client.next_rid,
                                                  !.attached = @ \cup {d},
                                                  !.frame = ServerInit.frame]
    /\ client' = Begin(client, "idle")
    /\ UNCHANGED <<peer, others>>

RemoveKinect ==
    /\ \E d \in DOMAIN server.kinects :
          server' = [remove_kinect(server, d) EXCEPT !.change_rid = client.next_rid,
                                                     !.attached = @ \ {d},
                                                     !.frame = ServerInit.frame]
    /\ client' = Begin(client, "idle")
    /\ UNCHANGED <<peer, others>>

\* The control session: the client's requests, the server's replies and the
\* request timeouts.
Next ==
    \/ Connect
    \/ Disconnect
    \/ Ping
    \/ Heartbeat
    \/ ControlRecv
    \/ OldRecv
    \/ TimerFire
    \/ Tick
    \/ ServerRecv
    \/ ServerRecvOld

Spec == Init /\ [][Next]_vars

\* The control session with a server that has one device and does not
\* change: the client connects, disconnects and connects again.
InitAttached ==
    /\ server = [add_kinect(ServerInit, "k1") EXCEPT !.attached = {"k1"}]
    /\ client = ClientInit
    /\ peer = PeerInit
    /\ compressor = CompressorInit
    /\ zc = ZcInit
    /\ browser = BrowserInit
    /\ codec = CodecInit

SpecReconnect == InitAttached /\ [][Next]_vars

\* The device registry seen through the control session: every reply arrives
\* before its request times out.
NextDevices ==
    \/ Connect
    \/ Disconnect
    \/ Ping
    \/ EnableDepthFrames
    \/ Heartbeat
    \/ ControlRecv
    \/ OldRecv
    \/ ServerRecv
    \/ ServerRecvOld
    \/ AddKinect
    \/ RemoveKinect

SpecDevices == Init /\ [][NextDevices]_vars

\* ------------------------------------------------ a server that is suspended
\* The server is suspended for StallTicks, once, while nothing is in flight.
Suspend ==
    /\ server.suspended = 0
    /\ client.is_connected
    /\ client.request_message_queue = <<>>
    /\ ~client.stall.pinged
    /\ server.op.name # "suspend"
    /\ server' = [server EXCEPT !.suspended = StallTicks,
                                !.op = [name |-> "suspend",
                                        was_running |-> server.is_running]]
    /\ client' = Begin(client, "idle")
    /\ UNCHANGED <<peer, others>>

\* The client sends a ping while the server is suspended.  left: the ticks
\* for which the server stays suspended after the ping.
StallPing ==
    /\ server.suspended > 0
    /\ client.is_connected
    /\ ~client.stall.pinged
    /\ CanSend(client)
    /\ client' = [ping(Begin(client, "ping")) EXCEPT
                    !.stall.pinged = TRUE, !.stall.left = server.suspended]
    /\ UNCHANGED <<server, peer, others>>

\* A message waits for the server or a reply for the client.
Pending(c) ==
    \/ /\ c.control_stream # NoStream
       /\ c.control_stream[1].outq # <<>> \/ c.control_stream[1].reply # <<>>
    \/ \E i \in 1..Len(c.old_streams) :
          c.old_streams[i].outq # <<>> \/ c.old_streams[i].reply # <<>>

\* Time passes unless a timeout is due.  A server that is not suspended and
\* the IOLoop of the client take less than a tick to handle a message.
StallTick ==
    /\ \A i \in 1..Len(client.timers) : client.timers[i].left > 0
    /\ server.suspended > 0 \/ ~Pending(client)
    /\ client' = [Begin(client, "idle") EXCEPT
                    !.timers = [i \in 1..Len(@) |-> [@[i] EXCEPT !.left = @ - 1]],
                    !.wait_ticks =
                        IF client.is_connected /\ client.request_message_queue # <<>>
                             /\ @ < MaxWait
                        THEN @ + 1 ELSE @]
    /\ server' = [server EXCEPT !.suspended = IF @ > 0 THEN @ - 1 ELSE 0]
    /\ UNCHANGED <<peer, others>>

NextStall ==
    \/ Connect
    \/ Suspend
    \/ StallPing
    \/ StallTick
    \/ TimerFire
    \/ ControlRecv
    \/ OldRecv
    \/ ServerRecv
    \/ ServerRecvOld

SpecStall == Init /\ [][NextStall]_vars

\* The IOLoop runs the callbacks that are due, the server that is not
\* suspended handles what it receives, and time passes.
SpecStallFair ==
    /\ SpecStall
    /\ WF_vars(StallTick) /\ WF_vars(TimerFire)
    /\ WF_vars(ControlRecv) /\ WF_vars(OldRecv)
    /\ WF_vars(ServerRecv) /\ WF_vars(ServerRecvOld)

\* ------------------------------------------------- the server and a raw peer
\* Multipart messages a peer can put on the control socket: any number of
\* parts, any tag byte, any payload bytes.
JsonObject == [x |-> 1]
PayloadBytes == {JsonDumps(None), JsonDumps(JsonObject), BadBytes}
PeerMsgs ==
    {<<>>}
    \cup {<<b>> : b \in TagBytes}
    \cup {<<b, y>> : b \in TagBytes, y \in PayloadBytes}
    \cup {<<b, y, y>> : b \in {MessageTypeValue("ping"), MessageTypeValue("who")},
                        y \in {JsonDumps(None)}}

PeerSend ==
    /\ peer.sent < MaxPeerMsgs
    /\ peer.outq = <<>> /\ peer.reply = <<>>
    /\ \E m \in PeerMsgs :
          peer' = [peer EXCEPT !.outq = <<[msg |-> m, rid |-> 0, to |-> "raw"]>>,
                               !.sent = @ + 1]
    /\ UNCHANGED <<server, client, others>>

\* The server's control stream receives the peer's message.
ServerRecvPeer ==
    /\ ServerHandles(peer)
    /\ peer' = [peer EXCEPT !.outq = ServerReplies(server, peer).outq,
                            !.reply = ServerReplies(server, peer).reply]
    /\ server' = [server EXCEPT !.last = ServerLast(server, peer)]
    /\ UNCHANGED <<client, others>>

PeerRecv ==
    /\ peer.reply # <<>>
    /\ peer' = [peer EXCEPT !.reply = <<>>]
    /\ UNCHANGED <<server, client, others>>

NextServer ==
    \/ PeerSend
    \/ ServerRecvPeer
    \/ PeerRecv
    \/ AddKinect
    \/ RemoveKinect

SpecServer == Init /\ [][NextServer]_vars

\* ------------------------------------- the client and a server of any kind
\* Replies a server that is not this Server can send.
MePayloads ==
    {[version |-> v, name |-> "S2", endpoints |-> [control |-> 1],
      devices |-> {[id |-> d, endpoints |-> [depth |-> 2]] : d \in D}] :
        v \in {ProtocolVersion, ProtocolVersion + 1}, D \in {{}, {"k1"}}}
    \cup {[name |-> "S2", endpoints |-> [control |-> 1], devices |-> {}]}
    \cup {[version |-> ProtocolVersion, name |-> "S3"],
          [version |-> ProtocolVersion, name |-> "S3",
           devices |-> {[id |-> "k2", endpoints |-> [depth |-> 3]]}],
          [version |-> ProtocolVersion, name |-> "S3",
           endpoints |-> [control |-> 1, colour |-> 4],
           devices |-> {[id |-> "k1", endpoints |-> [depth |-> 3, colour |-> 4]]}]}
AnyReplies ==
    {make_msg("pong", None),
     make_msg("error", [code |-> BadRequestCode, reason |-> "unknown type"]),
     make_msg("me", None)}
    \cup {make_msg("me", payload) : payload \in MePayloads}

AnyServerReply ==
    /\ client.control_stream # NoStream
    /\ ServerHandles(client.control_stream[1])
    /\ \E m \in AnyReplies :
          LET sock == client.control_stream[1]
              req == Head(sock.outq)
          IN client' = [Begin(client, "idle") EXCEPT
                          !.control_stream[1] =
                              [outq |-> Tail(sock.outq),
                               reply |-> <<[msg |-> m, rid |-> req.rid,
                                            to |-> req.to]>>]]
    /\ UNCHANGED <<server, peer, others>>

NextAnyServer ==
    \/ Connect
    \/ Disconnect
    \/ Ping
    \/ Heartbeat
    \/ ControlRecv
    \/ AnyServerReply

SpecAnyServer == Init /\ [][NextAnyServer]_vars

\* ------------------------------------------- the depth compression pipeline
Rest == <<server, client, peer, zc, browser, codec>>

\* The capture thread sends on_depth_frame for its next frame.
CaptureFrame ==
    /\ compressor.capture_pc = "idle"
    /\ compressor.next_frame <= MaxFrames
    /\ compressor' = on_depth_frame(compressor, compressor.next_frame)
    /\ UNCHANGED Rest

CaptureLoad ==
    /\ compressor.capture_pc = "load"
    /\ compressor' = increment_load(compressor)
    /\ UNCHANGED Rest

CaptureStore ==
    /\ compressor.capture_pc = "store"
    /\ compressor' = increment_store(compressor)
    /\ UNCHANGED Rest

\* A worker process returns from _compress_depth_frame or raises in it.
WorkerDone ==
    /\ \E f \in compressor.pool, ok \in BOOLEAN :
          compressor' = worker_done(compressor, f, ok)
    /\ UNCHANGED Rest

\* The result thread of the Pool calls the callback of the next result.
CallbackLoad ==
    /\ compressor.handler_pc = "idle"
    /\ compressor.results # <<>>
    /\ compressor' = decrement_load(compressor)
    /\ UNCHANGED Rest

CallbackStore ==
    /\ compressor.handler_pc = "store"
    /\ compressor' = on_compressed_frame(compressor)
    /\ UNCHANGED Rest

\* The IOLoop thread runs a callback of the compressor.
LoopRun ==
    /\ ~compressor.loop_closed
    /\ compressor.callbacks # <<>>
    /\ compressor' = run_callback(compressor)
    /\ UNCHANGED Rest

\* The application closes the IOLoop.
LoopClose ==
    /\ ~compressor.loop_closed
    /\ compressor' = close_loop(compressor)
    /\ UNCHANGED Rest

NextCompressor ==
    \/ CaptureFrame
    \/ CaptureLoad
    \/ CaptureStore
    \/ WorkerDone
    \/ CallbackLoad
    \/ CallbackStore
    \/ LoopRun
    \/ LoopClose

SpecCompressor == Init /\ [][NextCompressor]_vars

\* A compressor that has been running: it dropped up to MaxDroppedBefore
\* frames while its workers were busy, the workers have finished since and
\* nothing is in flight.  The frames that arrive from now on are followed.
InitOverload ==
    /\ server = ServerInit
    /\ client = ClientInit
    /\ peer = PeerInit
    /\ \E n \in 0..MaxDroppedBefore :
          compressor = [CompressorInit EXCEPT !.n_dropped = n]
    /\ zc = ZcInit
    /\ browser = BrowserInit
    /\ codec = CodecInit

SpecOverload == InitOverload /\ [][NextCompressor]_vars

\* ------------------------------------------------------------- properties
Emitted(c, sig) == {i \in 1..Len(c.emitted) : c.emitted[i].sig = sig}

\* C1: every reply is handed to the response handler registered with the
\* oldest request still outstanding in the current session.
C1_HandlerOfOldestRequest ==
    client.invoked # <<>> =>
        /\ client.invoked[1].rid = client.invoked[1].head_rid
        /\ client.invoked[1].sess = client.session

\* Every request of the client was answered and every reply delivered.
AllAnswered(c) ==
    /\ c.request_message_queue = <<>>
    /\ c.control_stream # NoStream
    /\ c.control_stream[1] = EmptySocket
    /\ c.old_streams = <<>>

\* C2: while the client has never disconnected, each response handler runs on
\* the reply to its own request, no reply is left without a request, and once
\* all N requests are answered all N handlers have run.
C2_OneHandlerPerRequest ==
    (client.session = 1 /\ client.is_connected) =>
        /\ client.invoked # <<>> =>
              client.invoked[1].rid = client.invoked[1].reply_rid
        /\ client.raised # "IndexError"
        /\ AllAnswered(client) => client.response_handlers = <<>>

\* C3: the client gives up only after request_max_tries whole request
\* timeouts without a reply, and then on_disconnect is sent once.
C3_DisconnectAfterMaxTries ==
    (client.op = "request_timedout" /\ Emitted(client, "on_disconnect") # {}) =>
        /\ client.wait_ticks >= MaxWait
        /\ Cardinality(Emitted(client, "on_disconnect")) = 1

\* C4: after disconnect no timeout armed during the session fires and no
\* response handler of the session runs.
C4_NothingAfterDisconnect ==
    /\ (client.fired # <<>> /\ client.fired[1].sess > 0) =>
          (client.fired[1].connected /\ client.fired[1].sess = client.fired[1].session)
    /\ client.invoked # <<>> => client.invoked[1].sess = client.session

\* C5: ping and enable_depth_frames on a disconnected client raise the
\* not-connected error and change nothing.
C5_NotConnectedFailsFast ==
    [][(~client.is_connected /\ client'.op \in {"ping", "enable_depth_frames"}) =>
          client' = [Raise(Begin(client, client'.op), "RuntimeError")
                       EXCEPT !.arg = client'.arg]]_vars

\* The reply handed to got_me is not a me of protocol version 1.
BadIdentity(inv) ==
    \/ inv.reply_type # "me"
    \/ inv.payload = None
    \/ "version" \notin DOMAIN inv.payload
    \/ inv.payload.version # ProtocolVersion

\* C6: a reply to who that is no me of version 1 raises ProtocolError, leaves
\* the server name and the device set alone and disconnects the client.
C6_ProtocolErrorDisconnects ==
    [][(client'.invoked # <<>> /\ client'.invoked[1].cb = "got_me"
          /\ BadIdentity(client'.invoked[1])) =>
          /\ client'.raised = "ProtocolError"
          /\ client'.server_name = client.server_name
          /\ kinect_ids(client') = kinect_ids(client)
          /\ ~client'.is_connected]_vars

IsError400(msg) ==
    /\ parse_msg(msg).ok
    /\ parse_msg(msg).type = "error"
    /\ parse_msg(msg).payload.code = BadRequestCode

\* C7: the server sends exactly one reply to every message it receives, an
\* error with code 400 when the message cannot be parsed, and keeps running.
C7_OneReplyPerMessage ==
    server.last.valid =>
        /\ Len(server.last.replies) = 1
        /\ ~parse_msg(server.last.req).ok => IsError400(server.last.replies[1])
        /\ server.is_running

C7_Witness ==
    /\ server.last.valid
    /\ server.last.after_error
    /\ ~parse_msg(server.last.req).ok
    /\ Len(server.last.req) = 3
    /\ peer.reply # <<>>

\* The server takes the peer's message in this step.
PeerHandled == peer.outq # <<>> /\ peer'.outq = <<>>

C9_DeviceSetAfterHeartbeat ==
    client.answered_who >= server.change_rid =>
        kinect_ids(client) = DOMAIN server.kinects

Count(c, sig, arg) ==
    Cardinality({i \in 1..Len(c.emitted) :
                    c.emitted[i] = [sig |-> sig, arg |-> arg]})

\* What one step does to the add and remove signals of device d, when got
\* says that the step took in a me reply and new whether that reply lists d.
SignalsFollow(d, got, new) ==
    LET old == d \in kinect_ids(client)
        now == IF got THEN new ELSE old
    IN /\ Count(client', "on_add_kinect", d) = IF now /\ ~old THEN 1 ELSE 0
       /\ Count(client', "on_remove_kinect", d) = IF old /\ ~now THEN 1 ELSE 0
       /\ client'.balance[d] \in {0, 1}

\* The connected client took a me reply off a control stream in this step.
MeReplyTaken ==
    /\ client'.invoked # <<>>
    /\ client'.invoked[1].reply_type = "me"
ReplyLists(d) == d \in {dev.id : dev \in client'.invoked[1].payload.devices}

\* C10: a me reply sends on_add_kinect once for each device id in the payload
\* that was not known, on_remove_kinect once for each known id not in the
\* payload and nothing for the others; per device the two signals alternate,
\* on_add_kinect first.
C10_KinectSignals ==
    [][\A d \in Devices :
          SignalsFollow(d, MeReplyTaken, MeReplyTaken /\ ReplyLists(d))]_vars

\* The same for the me replies that reach got_me: the handler itself sends
\* the signals of the difference.
GotMeSignals ==
    [][\A d \in Devices :
          LET got == MeReplyTaken /\ client'.invoked[1].cb = "got_me"
          IN SignalsFollow(d, got, got /\ ReplyLists(d))]_vars

\* ------------------------------------------------------------ wire codec
\* make_msg and parse_msg applied to every message type with every payload
\* of Payloads, and parse_msg applied to every message of PeerMsgs.
JsonObjects ==
    {EmptyObject, JsonObject,
     [code |-> BadRequestCode, reason |-> "bad message"],
     [version |-> ProtocolVersion, name |-> ServerName,
      endpoints |-> [control |-> 1], devices |-> <<>>]}
JsonPayloads == {None} \cup JsonObjects
Payloads == JsonPayloads \cup {PyTuple(<<1, 2>>), PyList(<<1, 2>>)}

CodecInputs ==
    {[pc |-> "args", type |-> t, payload |-> p, msg |-> <<>>,
      parsed |-> ParseFailed] : t \in MessageTypes, p \in Payloads}
    \cup {[pc |-> "received", type |-> "error", payload |-> None, msg |-> m,
           parsed |-> ParseFailed] : m \in PeerMsgs}

InitCodec ==
    /\ server = ServerInit
    /\ client = ClientInit
    /\ peer = PeerInit
    /\ compressor = CompressorInit
    /\ zc = ZcInit
    /\ browser = BrowserInit
    /\ codec \in CodecInputs

MakeMsg ==
    /\ codec.pc = "args"
    /\ codec' = [codec EXCEPT !.msg = make_msg(codec.type, codec.payload),
                              !.pc = "made"]
    /\ UNCHANGED <<server, client, peer, compressor, zc, browser>>

ParseMsg ==
    /\ codec.pc \in {"made", "received"}
    /\ codec' = [codec EXCEPT !.parsed = parse_msg(codec.msg),
                              !.pc = IF codec.pc = "made" THEN "round_trip"
                                     ELSE "parsed"]
    /\ UNCHANGED <<server, client, peer, compressor, zc, browser>>

NextCodec ==
    \/ MakeMsg
    \/ ParseMsg

SpecCodec == InitCodec /\ [][NextCodec]_vars

\* ------------------------------------------- server lifecycle, discovery
\* Server.start / Server.stop, called directly or by the with statement.
\* op records the call and whether the server was running when it was made.
Called(w, name) ==
    [w.server EXCEPT !.op = [name |-> name, was_running |-> server.is_running]]

ServerStart ==
    /\ \E port \in FreePorts(server) :
          LET w == start([server |-> server, zc |-> zc], port) IN
          server' = Called(w, "start") /\ zc' = w.zc
    /\ UNCHANGED <<client, peer, compressor, browser, codec>>

ServerStop ==
    /\ server' = Called(stop([server |-> server, zc |-> zc]), "stop")
    /\ zc' = stop([server |-> server, zc |-> zc]).zc
    /\ UNCHANGED <<client, peer, compressor, browser, codec>>

\* with Server(...) as s: __enter__ and __exit__
ServerEnter ==
    /\ \E port \in FreePorts(server) :
          LET w == start([server |-> server, zc |-> zc], port) IN
          server' = Called(w, "enter") /\ zc' = w.zc
    /\ UNCHANGED <<client, peer, compressor, browser, codec>>

ServerExit ==
    /\ server' = Called(stop([server |-> server, zc |-> zc]), "exit")
    /\ zc' = stop([server |-> server, zc |-> zc]).zc
    /\ UNCHANGED <<client, peer, compressor, browser, codec>>

\* Another server of the link registers itself and withdraws.
OtherRegister ==
    /\ OtherName \notin DOMAIN zc.registered
    /\ zc' = registerService(zc, [name |-> OtherName, port |-> OtherPort,
                                  address |-> inet_aton(LocalAddress)])
    /\ UNCHANGED <<server, client, peer, compressor, browser, codec>>

OtherWithdraw ==
    /\ OtherName \in DOMAIN zc.registered
    /\ zc' = unregisterService(zc, [name |-> OtherName, port |-> OtherPort,
                                    address |-> inet_aton(LocalAddress)])
    /\ UNCHANGED <<server, client, peer, compressor, browser, codec>>

\* zeroconf.ServiceBrowser, the library's thread: it learns of a service it
\* did not know, or that a service it knew is gone, and queues the call of
\* the listener.
ZcObserve ==
    /\ browser.running
    /\ Len(browser.events) < MaxQueue
    /\ \/ \E n \in DOMAIN zc.registered \ browser.known :
             browser' = [browser EXCEPT
                           !.known = @ \cup {n},
                           !.events = Append(@, [kind |-> "add", name |-> n])]
       \/ \E n \in browser.known \ DOMAIN zc.registered :
             browser' = [browser EXCEPT
                           !.known = @ \ {n},
                           !.events = Append(@, [kind |-> "remove", name |-> n])]
    /\ UNCHANGED <<server, client, peer, compressor, zc, codec>>

\* The library's thread calls the listener.  An exception that leaves the
\* listener may or may not end the thread.  resolved: for every callback the
\* listener has added, the port of the server's control endpoint at that
\* moment when the callback is the on_add_server of the running server, and 0
\* otherwise.
ListenerCall ==
    /\ browser.running
    /\ browser.events # <<>>
    /\ Len(browser.callbacks) < MaxQueue
    /\ LET e == Head(browser.events)
           b0 == [browser EXCEPT !.events = Tail(@), !.raised = "none",
                                 !.emitted = <<>>, !.sent_resolved = <<>>]
           b1 == IF e.kind = "add" THEN addService(b0, zc, e.name)
                 ELSE removeService(b0, e.name)
           now == IF e.kind = "add" /\ e.name = server.name /\ server.is_running
                  THEN server.endpoints.control ELSE 0
       IN \E goes_on \in IF b1.raised = "none" THEN {TRUE} ELSE BOOLEAN :
             browser' = [b1 EXCEPT
                           !.running = goes_on,
                           !.resolved = IF Len(b1.callbacks) > Len(b0.callbacks)
                                        THEN Append(@, now) ELSE @]
    /\ UNCHANGED <<server, client, peer, compressor, zc, codec>>

\* The IOLoop runs a callback the listener added.
BrowserSend ==
    /\ browser.callbacks # <<>>
    /\ browser' = [browser_send([browser EXCEPT !.raised = "none"]) EXCEPT
                     !.resolved = Tail(@),
                     !.sent_resolved = <<Head(browser.resolved)>>]
    /\ UNCHANGED <<server, client, peer, compressor, zc, codec>>

\* The ServerBrowser is collected: the weak reference of the listener is
\* dead.  A callback on the IOLoop refers to the browser and keeps it.
BrowserCollected ==
    /\ browser.alive
    /\ browser.callbacks = <<>>
    /\ browser' = [browser EXCEPT !.alive = FALSE, !.emitted = <<>>,
                                  !.sent_resolved = <<>>, !.raised = "none"]
    /\ UNCHANGED <<server, client, peer, compressor, zc, codec>>

NextDiscovery ==
    \/ ServerStart
    \/ ServerStop
    \/ ServerEnter
    \/ ServerExit
    \/ OtherRegister
    \/ OtherWithdraw
    \/ ZcObserve
    \/ ListenerCall
    \/ BrowserSend
    \/ BrowserCollected

\* Server(address, name, start_immediately=True) with any bind address.
InitDiscovery ==
    /\ \E address \in BindAddresses :
          /\ server = [ServerInit EXCEPT
                         !.address = address,
                         !.zc_info[1].address = inet_aton(address)]
          /\ zc = [ZcInit EXCEPT !.addresses[ServerName] = inet_aton(address)]
    /\ client = ClientInit
    /\ peer = PeerInit
    /\ compressor = CompressorInit
    /\ browser = BrowserInit
    /\ codec = CodecInit

SpecDiscovery == InitDiscovery /\ [][NextDiscovery]_vars

\* ------------------------------------------ the emissions of one IOLoop
\* A compressor and a ServerBrowser of one process.  The compressor has been
\* running: all but its last two frames were compressed and sent.
EmittedBefore == 1..(MaxFrames - 2)
InitEmissions ==
    /\ server = ServerInit
    /\ client = ClientInit
    /\ peer = PeerInit
    /\ compressor =
          [CompressorInit EXCEPT
             !.next_frame = MaxFrames - 1,
             !.stage = [f \in Frames |->
                          IF f \in EmittedBefore THEN "emitted" ELSE "new"],
             !.emitted = [f \in Frames |-> IF f \in EmittedBefore THEN 1 ELSE 0],
             !.ran_on = IF EmittedBefore = {} THEN {} ELSE {LoopThread}]
    /\ zc = ZcInit
    /\ browser = BrowserInit
    /\ codec = CodecInit

NextEmissions ==
    \/ CaptureFrame
    \/ CaptureLoad
    \/ CaptureStore
    \/ WorkerDone
    \/ CallbackLoad
    \/ CallbackStore
    \/ LoopRun
    \/ LoopClose
    \/ OtherRegister
    \/ OtherWithdraw
    \/ ZcObserve
    \/ ListenerCall
    \/ BrowserSend

SpecEmissions == InitEmissions /\ [][NextEmissions]_vars

\* ------------------------------------------------------- depth streaming
\* A compressed frame as the server sends it: the JPEG bytes of a frame of
\* the device.
CompressedFrame(d) == [jpeg |-> d]

\* The device sends on_depth_frame: a DepthFrameCompressor that exists takes
\* the frame, whether or not a record of the server still holds it.
KinectFrame ==
    /\ \E c \in server.compressors :
          server' = [server EXCEPT
                       !.frame = [event |-> "consumed", kinect |-> c.kinect,
                                  port |-> c.port, held |-> Held(server, c)]]
    /\ client' = Begin(client, "idle")
    /\ UNCHANGED <<peer, others>>

\* A compressor sends on_compressed_frame and the server's handler is
\* connected to it: Server._on_compressed_frame.
ServerPublish ==
    /\ \E c \in {x \in server.compressors : x.wired} :
          LET to == publish_port(server, c) IN
          IF to = <<>>
          THEN /\ server' = [server EXCEPT
                               !.frame = [event |-> "UnboundLocalError",
                                          kinect |-> c.kinect, port |-> 0,
                                          held |-> FALSE]]
               /\ client' = Begin(client, "idle")
          ELSE /\ Len(client.inbox) + Cardinality(Receivers(client, to[1]))
                    <= MaxInbox
               /\ server' = [server EXCEPT
                               !.frame = [event |-> "published",
                                          kinect |-> c.kinect, port |-> to[1],
                                          held |-> Held(server, c)]]
               /\ client' = deliver(Begin(client, "idle"), to[1],
                                    CompressedFrame(c.kinect))
    /\ UNCHANGED <<peer, others>>

\* A compressor that no record holds and that has no frame in the pool is
\* collected: its connections to the signals die with it.
CompressorCollected ==
    /\ \E c \in {x \in server.compressors : ~Held(server, x)} :
          server' = [server EXCEPT !.compressors = @ \ {c}]
    /\ client' = Begin(client, "idle")
    /\ UNCHANGED <<peer, others>>

\* A SUB stream delivers a message to its on_recv callback.
DepthRecv ==
    /\ client.inbox # <<>>
    /\ LET m == Head(client.inbox) IN
       client' = on_recv([Begin(client, "depth_recv") EXCEPT !.inbox = Tail(@)],
                         m.kinect_id, m.frame)
    /\ UNCHANGED <<server, peer, others>>

\* A dropped SUB stream is collected.
SubCollected ==
    /\ \E sub \in client.old_subs :
          client' = [Begin(client, "idle") EXCEPT !.old_subs = @ \ {sub}]
    /\ UNCHANGED <<server, peer, others>>

\* The server, its devices and their pipelines.
NextKinects ==
    \/ ServerStart
    \/ ServerStop
    \/ AddKinect
    \/ RemoveKinect
    \/ KinectFrame
    \/ ServerPublish
    \/ CompressorCollected

SpecKinects == Init /\ [][NextKinects]_vars

\* A client of the server that subscribes to the depth frames.
NextStreaming ==
    \/ Connect
    \/ Disconnect
    \/ Heartbeat
    \/ EnableDepthFrames
    \/ ControlRecv
    \/ OldRecv
    \/ ServerRecv
    \/ ServerRecvOld
    \/ AddKinect
    \/ RemoveKinect
    \/ ServerPublish
    \/ DepthRecv
    \/ SubCollected

SpecStreaming == Init /\ [][NextStreaming]_vars

\* ---------------------------------------- properties of the compressor
\* C11: under every interleaving of the capture thread, the result thread
\* and the IOLoop, the in-flight counter never exceeds MAX_IN_FLIGHT.
C11_CounterWithinLimit == compressor.n_in_flight <= MAX_IN_FLIGHT

\* The counter is at the limit while a callback is between its load and its
\* store, a frame was refused and an earlier frame was already sent.
C11_Witness ==
    /\ compressor.n_in_flight = MAX_IN_FLIGHT
    /\ compressor.handler_pc = "store"
    /\ StageOf(compressor, {"dropped"}) # {}
    /\ StageOf(compressor, {"emitted"}) # {}

\* Frames handed to the pool whose compressed result was not sent yet.
Outstanding(p) == StageOf(p, {"pooled", "result", "callback", "scheduled"})

\* C12: the frames submitted to the pool whose compressed result has not yet
\* been sent on on_compressed_frame are never more than MAX_IN_FLIGHT.
C12_OutstandingWithinLimit ==
    Cardinality(Outstanding(compressor)) <= MAX_IN_FLIGHT

\* C13: the counter is never negative and, whenever no thread is inside an
\* update, it is the number of submitted frames whose completion callback
\* has not run.
C13_CounterIsExact ==
    /\ compressor.n_in_flight >= 0
    /\ (compressor.capture_pc = "idle" /\ compressor.handler_pc = "idle") =>
          compressor.n_in_flight =
              Cardinality(StageOf(compressor, {"pooled", "failed", "result"}))

\* Frames that occupy a worker or wait for their completion callback.
Busy(p) == StageOf(p, {"pooled", "result", "callback"})

\* C14: a frame whose compression failed gives its slot back: as long as no
\* update of the counter was lost, a frame is refused only while
\* MAX_IN_FLIGHT frames are being compressed or await their callback.
C14_FailureReleasesSlot ==
    [][(/\ ~compressor.lost
        /\ \E f \in Frames : /\ compressor.stage[f] = "new"
                             /\ compressor'.stage[f] = "dropped")
          => Cardinality(Busy(compressor)) >= MAX_IN_FLIGHT]_vars

Occurrences(q, x) == Cardinality({i \in 1..Len(q) : q[i] = x})

\* What holds of the emissions of frame f whether or not the IOLoop is open.
EmissionsOf(p, f) ==
    /\ p.emitted[f] <= 1
    /\ p.emitted[f] = 1 <=> p.stage[f] = "emitted"
    /\ Occurrences(p.callbacks, f) = IF p.stage[f] = "scheduled" THEN 1 ELSE 0
    /\ p.stage[f] = "dropped" =>
          f \notin p.pool /\ Occurrences(p.results, f) = 0

\* C15: a frame whose compression completed is sent on on_compressed_frame
\* exactly once: it is never sent twice and never thrown away once its
\* callback has run; a refused frame is never sent.
C15_EmittedExactlyOnce ==
    \A f \in Frames :
        /\ EmissionsOf(compressor, f)
        /\ compressor.stage[f] # "discarded"

\* C15 as the code has it: a completed frame is thrown away only when the
\* IOLoop was closed before the frame could be sent.
C15_EmittedOnceWhileLoopOpen ==
    \A f \in Frames :
        /\ EmissionsOf(compressor, f)
        /\ compressor.stage[f] = "discarded" => compressor.loop_closed

C15_Witness ==
    /\ StageOf(compressor, {"emitted"}) # {}
    /\ StageOf(compressor, {"dropped"}) # {}
    /\ StageOf(compressor, {"discarded"}) # {}
    /\ compressor.handler_pc = "idle"

\* ---------------------------------------------- properties of the codec
\* C20: for every message type t and every JSON payload p, an object or
\* None, parse_msg(make_msg(t, p)) is (t, p); a message made with no payload
\* has one part; a message of no part or of more than two parts is rejected.
C20_RoundTrip ==
    /\ (codec.pc \in {"made", "round_trip"} /\ codec.payload = None) =>
          Len(codec.msg) = 1
    /\ (codec.pc = "round_trip" /\ codec.payload \in JsonPayloads) =>
          codec.parsed = [ok |-> TRUE, type |-> codec.type,
                          payload |-> codec.payload]
    /\ (codec.pc = "parsed" /\ Len(codec.msg) \notin {1, 2}) =>
          ~codec.parsed.ok

\* An empty object went through make_msg and parse_msg as a second part.
C20_Witness ==
    /\ codec.pc = "round_trip"
    /\ codec.payload = EmptyObject
    /\ Len(codec.msg) = 2
    /\ codec.parsed.ok
    /\ codec.parsed.payload = EmptyObject

\* ------------------------------------------------ properties of streaming
\* C21: enable_depth_frames with an id that is not in kinect_ids raises
\* ValueError and changes nothing else: no record, no subscription, nothing
\* of the session; so it is for the id of a device a me reply removed.
C21_UnknownDeviceRaises ==
    [][(/\ client'.op = "enable_depth_frames"
        /\ client'.arg[1] \notin kinect_ids(client)) =>
          client' = [Raise(Begin(client, "enable_depth_frames"), "ValueError")
                       EXCEPT !.arg = client'.arg]]_vars

\* enable_depth_frames was refused for a device the connected client knew
\* until a me reply no longer listed it, while it knows another device.
C21_Witness ==
    /\ client.op = "enable_depth_frames"
    /\ client.raised = "ValueError"
    /\ client.is_connected
    /\ client.arg[1] \in client.seen
    /\ client.arg[1] \notin kinect_ids(client)
    /\ kinect_ids(client) # {}

\* C22: every message a depth subscription receives produces exactly one
\* on_depth_frame signal, which carries the id of the subscription's device
\* and the compressed frame as it was published.
C22_FrameAsPublished ==
    [][client'.op = "depth_recv" =>
         LET m == Head(client.inbox) IN
         client'.emitted =
             <<[sig |-> "on_depth_frame",
                arg |-> [kinect_id |-> m.kinect_id, depth_frame |-> m.frame]]>>]_vars

\* What does hold of the signal: it is sent once and names the device.
C22_OneSignalOfDevice ==
    [][client'.op = "depth_recv" =>
         /\ Len(client'.emitted) = 1
         /\ client'.emitted[1].sig = "on_depth_frame"
         /\ client'.emitted[1].arg.kinect_id = Head(client.inbox).kinect_id]_vars

\* C23: once a me reply no longer lists a device, or omits or changes its
\* depth endpoint, the subscription to the old endpoint is gone: no
\* on_depth_frame comes from a frame that was published on the old endpoint
\* after that reply, and the device has no subscription until
\* enable_depth_frames is called again.
C23_DroppedSubscriptionIsSilent ==
    [][/\ client'.op = "depth_recv" => ~Head(client.inbox).after_drop
       /\ \A sub \in client'.old_subs \ client.old_subs :
             sub.by = "got_me" =>
               \/ sub.kinect_id \notin kinect_ids(client')
               \/ ~HasStream(client'.kinect_records[sub.kinect_id])]_vars

\* What does hold: the record of the device holds no stream after the reply.
C23_RecordHoldsNoStream ==
    [][\A sub \in client'.old_subs \ client.old_subs :
         sub.by = "got_me" =>
           \/ sub.kinect_id \notin kinect_ids(client')
           \/ ~HasStream(client'.kinect_records[sub.kinect_id])]_vars

\* The identity the client exposes: the server's name, the device set with
\* the endpoint table of each device, and the server's endpoints.
Identity(c) ==
    [server_name |-> c.server_name,
     devices |-> [d \in kinect_ids(c) |-> c.kinect_records[d].endpoints],
     endpoints |-> c.endpoints]

\* The identity a complete me payload describes, c being the client before
\* the reply: of every table the entries of the known endpoint types.
Complete(payload) == {"name", "devices", "endpoints"} \subseteq DOMAIN payload
Known(table) == Restrict(table, DOMAIN table \cap EndpointTypes)
IdentityOf(c, payload) ==
    [server_name |-> <<payload.name>>,
     devices |-> [d \in {device.id : device \in payload.devices} |->
                    Known((CHOOSE device \in payload.devices :
                             device.id = d).endpoints)],
     endpoints |-> Known(payload.endpoints) @@ c.endpoints]

\* C24: a me reply of version 1 replaces the identity as a whole: afterwards
\* the server name, the device set, each device's endpoint table (exactly the
\* endpoints of known type the payload lists) and the server's endpoints are
\* those of the payload, and when the payload cannot be processed to its end
\* they are all as they were before; the signals are sent after the change.
C24_IdentityReplacedAsAWhole ==
    [][(client'.invoked # <<>> /\ client'.invoked[1].cb = "got_me"
          /\ ~BadIdentity(client'.invoked[1])) =>
         LET payload == client'.invoked[1].payload IN
         \/ /\ Complete(payload)
            /\ Identity(client') = IdentityOf(client, payload)
         \/ /\ ~Complete(payload)
            /\ Identity(client') = Identity(client)
            /\ client'.emitted = <<>>]_vars

\* What does hold: a complete payload replaces the identity as a whole.
C24_CompletePayloadReplaces ==
    [][(client'.invoked # <<>> /\ client'.invoked[1].cb = "got_me"
          /\ ~BadIdentity(client'.invoked[1])
          /\ Complete(client'.invoked[1].payload)) =>
         Identity(client') =
             IdentityOf(client, client'.invoked[1].payload)]_vars

\* ------------------------------------------ properties of the device registry
\* C25: a device that was removed and not added again has left the server:
\* it is not in the registry nor in the me payload, no PUB socket made for it
\* is open, no compressor takes its frames and no frame of it is published.
C25_RemoveUndoesAdd ==
    \A d \in Devices \ server.attached :
        /\ d \notin DOMAIN server.kinects
        /\ d \notin {device.id : device \in current_me(server).devices}
        /\ \A port \in DOMAIN server.pubs : server.pubs[port] # d
        /\ server.frame.kinect = d =>
              server.frame.event \notin {"consumed", "published"}

\* What does hold: the device leaves the registry and the me payload, and no
\* frame of it is published.
C25_LeavesRegistry ==
    \A d \in Devices \ server.attached :
        /\ d \notin DOMAIN server.kinects
        /\ d \notin {device.id : device \in current_me(server).devices}
        /\ server.frame.kinect = d => server.frame.event # "published"

\* C26: whether the server runs or not, kinects lists exactly the devices
\* that were added and not removed since, each once, also when a device was
\* added twice; add_kinect and remove_kinect change neither is_running nor
\* the control endpoint.
C26_KinectsAreTheAttached ==
    /\ [](/\ {kinects(server)[i] : i \in 1..Len(kinects(server))}
               = server.attached
          /\ Len(kinects(server)) = Cardinality(server.attached))
    /\ [][server'.kinects # server.kinects =>
            /\ server'.is_running = server.is_running
            /\ server'.endpoints = server.endpoints
            /\ server'.streams = server.streams]_vars

\* The stopped server lists once a device that was added twice.
C26_Witness ==
    /\ ~server.is_running
    /\ Cardinality({c \in server.compressors : c.kinect = "k1"}) = 2
    /\ kinects(server) = <<"k1">>
    /\ server.attached = {"k1"}

\* ----------------------------------------- properties of the request timeouts
\* The timeouts that are pending on the IOLoop.
Armed(c) == {c.timers[i].id : i \in 1..Len(c.timers)}

\* C27: while the client is connected every request of the in-flight queue
\* has a timeout of its own that is tracked in _request_timeout_handles and
\* is armed, so that it fires within request_timeout.
C27_EveryRequestHasArmedTimeout ==
    client.is_connected =>
        /\ Len(client.request_timeout_handles) = Len(client.request_message_queue)
        /\ \A i \in 1..Len(client.request_timeout_handles) :
              /\ client.request_timeout_handles[i] \in Armed(client)
              /\ \A j \in 1..Len(client.request_timeout_handles) :
                    client.request_timeout_handles[i]
                        = client.request_timeout_handles[j] => i = j

\* What does hold: while a request is in flight some timeout is armed.
C27_SomeTimeoutArmed ==
    (client.is_connected /\ client.request_message_queue # <<>>) =>
        Armed(client) # {}

\* C28: with request_timeout 100 ms and request_max_tries 3, a ping sent
\* while the server is suspended for 250 ms has recreated the request socket
\* exactly once when its pong handler is called; the client is connected and
\* the handler is called once.
C28_ExactlyOneRecreation ==
    (client.stall.pongs > 0 /\ client.stall.left = StallTicks) =>
        /\ client.stall.recreations = 1
        /\ client.is_connected
        /\ client.stall.pongs = 1

\* C28 as amended: the request socket is recreated once for every
\* request_timeout that passes between the ping and the end of the
\* suspension (a timeout due at the very end may or may not come first), which
\* is twice for a ping sent as a suspension of 250 ms begins; the client
\* stays connected and the pong handler is called once, and is called.
C28_OneRecreationPerTimeout ==
    /\ [](client.stall.pinged =>
            /\ client.stall.left < MaxWait => client.is_connected
            /\ client.stall.pongs <= 1
            /\ client.stall.recreations <= client.stall.left \div TicksPerTimeout)
    /\ [](client.stall.pongs = 1 =>
            client.stall.recreations >=
                (client.stall.left - 1) \div TicksPerTimeout)
    /\ ((client.stall.pinged /\ client.stall.left < MaxWait)
          ~> client.stall.pongs = 1)

\* The ping was sent as the suspension began and its pong handler has run.
C28_Witness ==
    /\ client.stall.left = StallTicks
    /\ client.stall.pongs = 1
    /\ client.stall.recreations = 2
    /\ client.is_connected
    /\ server.suspended = 0

\* C30: a request timeout with tries left recreates the request socket and
\* sends every message of the in-flight queue again on the new socket, each
\* once and in the order in which the requests were first sent; the message
\* queue and the queue of response handlers are as they were.
C30_ResendsWholeQueueInOrder ==
    [][(client'.op = "request_timedout" /\ client.request_tries_left # 1) =>
         LET q == client.request_message_queue
             sent == client'.control_stream[1].outq
         IN /\ client'.control_stream[1].reply = <<>>
            /\ Len(sent) = Len(q)
            /\ \A i \in 1..Len(q) :
                  /\ sent[i].rid = q[i].rid
                  /\ sent[i].msg = make_msg(q[i].type, q[i].payload)
                  /\ \A k \in 1..Len(q) : i < k => q[i].rid < q[k].rid
            /\ client'.request_message_queue = q
            /\ client'.response_handlers = client.response_handlers]_vars

\* A timeout has just sent two queued requests again.
C30_Witness ==
    /\ client.op = "request_timedout"
    /\ client.is_connected
    /\ Len(client.request_message_queue) >= 2
    /\ client.request_tries_left \in 1..(request_max_tries - 1)
    /\ Len(client.control_stream[1].outq) = Len(client.request_message_queue)
    /\ client.control_stream[1].outq[2].rid = client.request_message_queue[2].rid

\* ------------------------------------------- properties of the connection
\* C19: on_connect is sent once in exactly the steps that take is_connected
\* from false to true and on_disconnect once in exactly the steps that take
\* it from true to false, so the two signals alternate, on_connect first;
\* the client is connected after connect() and disconnected after
\* disconnect(); connect() on a connected client and disconnect() on a
\* disconnected one change nothing; only connect, disconnect and the
\* disconnect of the last request timeout change is_connected.
C19_ConnectedBetweenConnectAndDisconnect ==
    [][/\ Cardinality(Emitted(client', "on_connect")) =
             IF ~client.is_connected /\ client'.is_connected THEN 1 ELSE 0
       /\ Cardinality(Emitted(client', "on_disconnect")) =
             IF client.is_connected /\ ~client'.is_connected THEN 1 ELSE 0
       /\ client'.op = "connect" =>
             /\ client'.is_connected
             /\ client.is_connected => client' = Begin(client, "connect")
       /\ client'.op = "disconnect" =>
             /\ ~client'.is_connected
             /\ ~client.is_connected => client' = Begin(client, "disconnect")
       /\ client'.is_connected # client.is_connected =>
             client'.op \in {"connect", "disconnect", "request_timedout"}
      ]_vars

\* connect() was called on a client that is connected for the second time.
C19_Witness ==
    /\ client.op = "connect"
    /\ client.emitted = <<>>
    /\ client.is_connected
    /\ client.session = 2

\* ------------------------------------------------ properties of discovery
SentSignal(sig, n) ==
    /\ browser.emitted # <<>>
    /\ browser.emitted[1].sig = sig
    /\ browser.emitted[1].server_info.name = n

\* Nothing is on its way: the library has no listener call to make and the
\* IOLoop has no callback of the browser to run.
BrowserQuiet == browser.events = <<>> /\ browser.callbacks = <<>>

DottedQuad(text) ==
    IF Len(text) = 4 THEN text
    ELSE IF Len(text) = 2 THEN <<text[1], 0, 0, text[2]>>
    ELSE <<text[1], text[2], 0, text[3]>>

\* The browser sends on_add_server for the server, which runs and announces
\* itself.
AddOfRunningServer ==
    /\ SentSignal("on_add_server", server.name)
    /\ server.is_running
    /\ server.announce

\* C29: every on_add_server sent for the running, announced server carries
\* the server's name and the URI of the server's current control endpoint
\* (the server being bound to an address that was given as a dotted quad).
C29_AddCarriesCurrentEndpoint ==
    (AddOfRunningServer /\ server.address = DottedQuad(server.address)) =>
        browser.emitted[1].server_info =
            [name |-> server.name, endpoint |-> control_endpoint(server)]

\* C29 as amended: every on_add_server sent for the server carries the
\* server's name and the URI made of the server's bind address as a dotted
\* quad and of the port of the control endpoint the server was running on
\* when the listener resolved the announcement.
C29_AddCarriesResolvedEndpoint ==
    SentSignal("on_add_server", server.name) =>
        /\ browser.sent_resolved[1] # 0
        /\ browser.emitted[1].server_info =
              [name |-> server.name,
               endpoint |-> Uri(DottedQuad(server.address),
                                browser.sent_resolved[1])]

\* The server was stopped and started again on another port, and the
\* on_add_server of the second start carries the endpoint it has now.
C29_Witness ==
    /\ AddOfRunningServer
    /\ server.endpoints.control = 2
    /\ browser.emitted[1].server_info.endpoint = control_endpoint(server)
    /\ browser.sent_resolved = <<2>>

\* ------------------------------------------------ properties of lifecycle
StartStep == server'.op # server.op /\ server'.op.name \in {"start", "enter"}
StopStep == server'.op # server.op /\ server'.op.name \in {"stop", "exit"}

\* No socket, endpoint, registration or flag changed.
NoStateChange == [server' EXCEPT !.op = server.op] = server /\ zc' = zc

\* C17: is_running is true after every start and false after every stop
\* (the end of a with block included) and no other step changes it; a start
\* on a running server and a stop on a stopped one change no state.
C17_RunningBetweenStartAndStop ==
    [][/\ StartStep => /\ server'.is_running
                       /\ server.is_running => NoStateChange
       /\ StopStep => /\ ~server'.is_running
                      /\ ~server.is_running => NoStateChange
       /\ ~(StartStep \/ StopStep) => server'.is_running = server.is_running
      ]_vars

\* start() was called on a server that a second start had bound to port 2.
C17_Witness ==
    /\ server.op = [name |-> "start", was_running |-> TRUE]
    /\ server.is_running
    /\ server.endpoints.control = 2

\* C18: with announce, the server is registered with Zeroconf exactly while
\* it is running, and the port registered is the port its control socket is
\* bound to by the latest start.
C18_RegisteredWhileRunning ==
    server.announce =>
        /\ (server.name \in DOMAIN zc.registered) <=> server.is_running
        /\ server.is_running =>
              /\ zc.registered[server.name] = server.streams.control
              /\ server.endpoints.control = server.streams.control
              /\ server.streams.control \in server.bound

\* The server was stopped and started again and is registered with the
\* port the second start bound.
C18_Witness ==
    /\ server.announce
    /\ server.op = [name |-> "start", was_running |-> FALSE]
    /\ server.is_running
    /\ zc.registered[server.name] = 2
    /\ server.streams.control = 2

\* ------------------------------------------- properties of the retry counter
\* The step is a reply taken by _control_recv of a connected client.
ReplyTaken == client'.op = "control_recv" /\ client.is_connected

\* C31: _request_tries_left is set to request_max_tries by connect and by
\* every reply, goes down only when a timeout of the current session fires,
\* stays within 0..request_max_tries and is at least 1 while connected.
C31_TriesLeftInRange ==
    /\ [](/\ client.request_tries_left \in 0..request_max_tries
          /\ client.is_connected => client.request_tries_left >= 1)
    /\ [][/\ (client'.op = "connect" /\ ~client.is_connected) =>
                client'.request_tries_left = request_max_tries
          /\ ReplyTaken => client'.request_tries_left = request_max_tries
          /\ client'.request_tries_left < client.request_tries_left =>
                /\ client'.op = "request_timedout"
                /\ client'.fired[1].connected
                /\ client'.fired[1].sess = client.session]_vars

\* While connected the counter is within 1..request_max_tries, and connect
\* sets it to request_max_tries.
C31_ConnectedTriesInRange ==
    /\ [](client.is_connected =>
            client.request_tries_left \in 1..request_max_tries)
    /\ [][(client'.op = "connect" /\ ~client.is_connected) =>
             client'.request_tries_left = request_max_tries]_vars

\* ------------------------------------------ properties of the frame drop
\* The capture thread hands its next frame to _on_depth_frame in this step.
FrameArrives ==
    /\ compressor.next_frame <= MaxFrames
    /\ compressor.stage[compressor.next_frame] = "new"
    /\ compressor'.stage[compressor.next_frame] # "new"

\* C32: a frame that arrives while _n_in_flight equals _MAX_IN_FLIGHT is not
\* given to the pool, leaves _n_in_flight alone and adds one to _n_dropped;
\* a frame that arrives below the limit is given to the pool and not counted
\* as dropped; a warning is logged exactly when _n_dropped reaches a multiple
\* of 10.
C32_DropAtLimitOnly ==
    [][/\ (FrameArrives /\ compressor.n_in_flight = MAX_IN_FLIGHT) =>
             /\ compressor'.pool = compressor.pool
             /\ compressor'.stage[compressor.next_frame] = "dropped"
             /\ compressor'.n_in_flight = compressor.n_in_flight
             /\ compressor'.n_dropped = compressor.n_dropped + 1
       /\ (FrameArrives /\ compressor.n_in_flight < MAX_IN_FLIGHT) =>
             /\ compressor'.pool = compressor.pool \cup {compressor.next_frame}
             /\ compressor.next_frame \notin compressor.pool
             /\ compressor'.n_dropped = compressor.n_dropped
       /\ compressor'.warnings =
             IF /\ compressor'.n_dropped # compressor.n_dropped
                /\ compressor'.n_dropped % 10 = 0
             THEN Append(compressor.warnings, compressor'.n_dropped)
             ELSE compressor.warnings]_vars

\* The tenth dropped frame was dropped at the limit and logged, after a frame
\* below the limit had been given to the pool.
C32_Witness ==
    /\ compressor.warnings = <<10>>
    /\ compressor.n_dropped = 10
    /\ \E f \in Frames : compressor.stage[f] = "dropped"
    /\ \E f \in Frames : compressor.stage[f] = "pooled"

\* ------------------------------------------- properties of the emissions
\* The step sends on_compressed_frame for frame f.
FrameSent(f) == compressor'.emitted[f] > compressor.emitted[f]
\* The step sends on_add_server or on_remove_server.
ServerSignalSent == browser'.balance # browser.balance

\* C33: the handlers of on_compressed_frame, on_add_server and
\* on_remove_server are run by the IOLoop thread only, and each emission is
\* the oldest one scheduled on the IOLoop that has not run yet.
C33_HandlersOnLoopInOrder ==
    /\ [](compressor.ran_on \subseteq {LoopThread}
            /\ browser.ran_on \subseteq {LoopThread})
    /\ [][/\ \A f \in Frames :
                FrameSent(f) =>
                   /\ compressor.callbacks # <<>>
                   /\ f = Head(compressor.callbacks)
                   /\ compressor'.callbacks = Tail(compressor.callbacks)
                   /\ \A g \in Frames \ {f} : ~FrameSent(g)
          /\ ServerSignalSent =>
                /\ browser.callbacks # <<>>
                /\ browser'.emitted = <<Head(browser.callbacks)>>
                /\ browser'.callbacks = Tail(browser.callbacks)]_vars

\* Both kinds of emission have run, each while a later one was scheduled.
C33_Witness ==
    /\ compressor.stage[MaxFrames - 1] = "emitted"
    /\ compressor.callbacks # <<>>
    /\ compressor.ran_on = {LoopThread}
    /\ browser.ran_on = {LoopThread}
    /\ browser.emitted # <<>>
    /\ browser.callbacks # <<>>

\* ----------------------------------------- properties of the publication
\* The server's handler has just been called for a compressed frame.
FrameHandled == server.frame.event \in {"published", "UnboundLocalError"}

\* The messages waiting in the client's depth subscriptions are frames of
\* the device whose PUB socket the subscription is connected to.
SubscribersGetOwnDevice ==
    \A i \in 1..Len(client.inbox) :
        /\ client.inbox[i].endpoint \in DOMAIN server.pubs
        /\ client.inbox[i].frame =
              CompressedFrame(server.pubs[client.inbox[i].endpoint])

\* C34: every compressed frame a device's pipeline emits is written to a
\* PUB socket of that device and to no other socket, so a subscriber of one
\* device's depth endpoint receives frames of that device only.
C34_FrameToOwnSocketOnly ==
    /\ FrameHandled =>
          /\ server.frame.event = "published"
          /\ server.frame.port \in DOMAIN server.pubs
          /\ server.pubs[server.frame.port] = server.frame.kinect
    /\ SubscribersGetOwnDevice

\* What does hold: a frame that is published goes to a PUB socket of its
\* device, and subscribers receive frames of their device only.
C34_PublishedToOwnSocket ==
    /\ server.frame.event = "published" =>
          /\ server.frame.port \in DOMAIN server.pubs
          /\ server.pubs[server.frame.port] = server.frame.kinect
          /\ server.frame.kinect \in DOMAIN server.kinects
          /\ server.kinects[server.frame.kinect].endpoints.depth
                = server.frame.port
    /\ SubscribersGetOwnDevice

\* C35: a compressed frame of a pipeline whose device is not in the registry
\* is logged and dropped: nothing is published and no error is raised.
C35_UnknownDeviceFrameDropped ==
    [][(/\ server'.frame # server.frame
        /\ server'.frame.event \in {"published", "UnboundLocalError"}
        /\ server'.frame.kinect \notin DOMAIN server.kinects) =>
          /\ server'.frame.event # "UnboundLocalError"
          /\ client'.inbox = client.inbox]_vars

\* What does hold: nothing is published for such a frame.
C35_NothingPublished ==
    [][(/\ server'.frame # server.frame
        /\ server'.frame.kinect \notin DOMAIN server.kinects) =>
          /\ server'.frame.event # "published"
          /\ client'.inbox = client.inbox]_vars

\* ------------------------------------------ properties of the request queues
\* C36: _request_message_queue, _request_timeout_handles and
\* _response_handlers have the same length in every state, and all three are
\* empty while the client is disconnected.
C36_QueuesAligned ==
    /\ Len(client.request_message_queue) = Len(client.request_timeout_handles)
    /\ Len(client.request_message_queue) = Len(client.response_handlers)
    /\ ~client.is_connected =>
          /\ client.request_message_queue = <<>>
          /\ client.request_timeout_handles = <<>>
          /\ client.response_handlers = <<>>

\* What does hold: the message queue is empty while the client is
\* disconnected, and until the first disconnect the message queue and the
\* response handlers have the same length.
C36_MessageQueueEmptyWhenDisconnected ==
    /\ ~client.is_connected => client.request_message_queue = <<>>
    /\ (client.is_connected /\ client.session = 1) =>
          Len(client.request_message_queue) = Len(client.response_handlers)

\* --------------------------------------- properties of the disconnected client
\* C37: while is_connected is false the client holds no control stream, its
\* heartbeat does not run, and it neither creates a request socket nor sends
\* on one, however it became disconnected.
C37_DisconnectedIsSilent ==
    /\ [](~client.is_connected =>
            /\ client.control_stream = NoStream
            /\ ~client.heartbeat_callback)
    /\ [][(~client.is_connected /\ ~client'.is_connected) =>
             client'.control_stream = NoStream]_vars

\* What does hold: every step that disconnects the client, retry exhaustion
\* included, leaves it without control stream, heartbeat, queued request and
\* tracked timeout; the heartbeat never runs while it is disconnected, and a
\* disconnected client queues no message on a socket.
C37_DisconnectReleases ==
    /\ [](~client.is_connected =>
            /\ ~client.heartbeat_callback
            /\ client.control_stream # NoStream =>
                  client.control_stream[1].outq = <<>>)
    /\ [][(client.is_connected /\ ~client'.is_connected) =>
             /\ client'.control_stream = NoStream
             /\ client'.request_message_queue = <<>>
             /\ client'.request_timeout_handles = <<>>]_vars

\* C38: disconnect leaves server_name, the device records and their
\* endpoint tables as they are and sends no on_remove_kinect; while the
\* client is disconnected they do not change, so the devices are still
\* reported by kinect_ids; and with a server that does not change a device
\* that was known gets no second on_add_kinect after a reconnect.
C38_DisconnectKeepsDevices ==
    [][/\ (client.is_connected /\ ~client'.is_connected) =>
             /\ Emitted(client', "on_remove_kinect") = {}
             /\ Emitted(client', "on_add_kinect") = {}
       /\ (~client.is_connected \/ ~client'.is_connected) =>
             /\ client'.server_name = client.server_name
             /\ client'.kinect_records = client.kinect_records
             /\ client'.endpoints = client.endpoints
       /\ Emitted(client', "on_remove_kinect") = {}
       /\ \A d \in Devices :
             Count(client', "on_add_kinect", d) > 0 =>
                /\ Count(client', "on_add_kinect", d) = 1
                /\ d \notin client.seen]_vars

\* The client has sent two requests, the who of its first and the who of its
\* second connect, and has just taken the reply to the second with the
\* handler of the second: it knew the device from the first session and no
\* signal was sent.
C38_Witness ==
    /\ client.session = 2
    /\ client.is_connected
    /\ client.next_rid = 3
    /\ client.invoked # <<>>
    /\ client.invoked[1].cb = "got_me"
    /\ client.invoked[1].reply_type = "me"
    /\ client.invoked[1].rid = 2
    /\ client.invoked[1].reply_rid = 2
    /\ kinect_ids(client) = {"k1"}
    /\ client.balance["k1"] = 1
    /\ client.emitted = <<>>

\* C39: a disconnect ends the depth subscriptions of the session: the
\* disconnected client sends no on_depth_frame, and none comes until it is
\* connected and enable_depth_frames has been called again.
C39_NoDepthFramesAfterDisconnect ==
    /\ [](~client.is_connected => Emitted(client, "on_depth_frame") = {})
    /\ [][(client.is_connected /\ ~client'.is_connected) =>
             /\ LiveStreams(client') = {}
             /\ client'.inbox = <<>>]_vars

\* What the code does: a disconnect leaves every depth subscription and
\* every message waiting in one as it was.
C39_DisconnectKeepsSubscriptions ==
    [][(client.is_connected /\ ~client'.is_connected) =>
          /\ LiveStreams(client') = LiveStreams(client)
          /\ client'.inbox = client.inbox]_vars

====
